---- MODULE Spec2Model ----
(***************************************************************************)
(* Plan/apply reconciliation engine of file-mover-for-google-drive.        *)
(*                                                                         *)
(* The remote store (Google Drive) is a function from entry ids to entry   *)
(* records.  A plan run walks the tree below the top folder and writes     *)
(* plan rows; an apply run reads the rows back and executes them against   *)
(* the live store.  Entry ids are numbers; id order stands for the         *)
(* "folder,name" order of a files.list response among entries of one kind. *)
(***************************************************************************)
EXTENDS Integers, Sequences, FiniteSets, TLC

VARIABLES
    store,        \* remote store: [existing entry ids -> entry record]
    config,       \* ConfigProgram read from the config file
    pc,           \* "idle" | "plan" | "apply": the run in progress
    queue,        \* plan run: entries the traversal still has to yield
    cache,        \* GoogleDriveEntryCache._cache: ids added so far
    planFile,     \* rows of the latest plans report
    edited,       \* the operator removed a row from the latest plans report
    planIdx,      \* apply run: number of plan rows already read
    outcomes,     \* rows of the current / latest outcomes report
    firstPass,    \* outcomes report of the previous apply run of this plans report
    prevEnd,      \* how the run before the current / latest apply run ended
    runOps,       \* mutating remote calls issued by the current / latest run
    runEnd,       \* how the latest run ended ("running" while one is going)
    moveFailed,   \* entries whose MOVE_ENTRY failed for want of the parent's copy
    interventions, \* rows removed by the operator, signals and kills so far
    should_exit,  \* GracefulExit.state of the current / latest run
    lastPair      \* the latest stand-alone pairing lookup: entry and result

vars == << store, config, pc, queue, cache, planFile, edited, planIdx, outcomes,
           firstPass, prevEnd, runOps, runEnd, moveFailed, interventions,
           should_exit, lastPair >>

----------------------------------------------------------------------------
(* Bounds of the model *)

\* entries the remote store may create on top of the initial tree
MaxNew == 4

\* times the environment steps in: a row removed from a plans report, a SIGINT,
\* a kill
MaxInterventions == 1

\* entries the remote store may create when plan rows are applied one at a time
MaxItemNew == 2

----------------------------------------------------------------------------
(* Program constants *)

\* properties_shared.get(key) when the key is absent
NoId == 0

\* ConfigAccount.top_folder_id
TopId == 1

key_copy == "CustomFileMoverCopyFileId"
key_orig == "CustomFileMoverOriginalFileId"

PERSONAL == "personal"
BUSINESS == "business"

CREATE_FOLDER     == "create-folder"
RENAME_FILE       == "rename-file"
DELETE_PERMISSION == "delete-permission"
COPY_FILE         == "copy-file"
MOVE_ENTRY        == "move-entry"

PlanReportActions ==
    {CREATE_FOLDER, RENAME_FILE, DELETE_PERMISSION, COPY_FILE, MOVE_ENTRY}

UNKNOWN == "unknown"
SUCCESS == "success"
SKIPPED == "skipped"
FAILED  == "failed"

PlanReportOutcomes == {UNKNOWN, SUCCESS, SKIPPED, FAILED}

\* emails
Me     == "me@example.com"
Other  == "other@example.com"
Domain == "example.com.au"
NoMail == "-"

----------------------------------------------------------------------------
(* Permissions: a permission id stands for one permission resource. *)

PermIds == {"ownMe", "ownOther", "userMe", "userOther", "anyone", "group",
            "domain"}

entry_type(p) ==
    CASE p = "anyone" -> "anyone"
      [] p = "group"  -> "group"
      [] p = "domain" -> "domain"
      [] OTHER        -> "user"

\* GoogleDrivePermission.role is a member of GoogleDrivePermissionRoleOptions;
\* a member is written by its name, its value is RoleValue(member)
role(p) ==
    CASE p \in {"ownMe", "ownOther"} -> "OWNER"
      [] p = "anyone"                -> "VIEWER"
      [] OTHER                       -> "EDITOR"

RoleValue(member) ==
    CASE member = "OWNER"  -> "owner"
      [] member = "EDITOR" -> "writer"
      [] member = "VIEWER" -> "reader"
      [] OTHER             -> "commenter"

user_email(p) ==
    CASE p \in {"ownMe", "userMe"}       -> Me
      [] p \in {"ownOther", "userOther"} -> Other
      [] p = "group"                     -> "group@example.com"
      [] OTHER                           -> NoMail

----------------------------------------------------------------------------
(* Entries *)

\* A name is a sequence of pieces of text: "Copy of " in any case, the marker
\* " copy (xN)", and any other text
MarkerTexts == << " copy (x1)", " copy (x2)", " copy (x3)", " copy (x4)",
                 " copy (x5)", " copy (x6)", " copy (x7)", " copy (x8)" >>

\* str.lower() of a piece
Lower(piece) ==
    CASE piece = "Copy of " -> "copy of "
      [] piece = "COPY OF " -> "copy of "
      [] OTHER              -> piece

\* the N of a " copy (xN)" piece, 0 for any other piece
MarkerCount(piece) ==
    IF \E n \in DOMAIN MarkerTexts : MarkerTexts[n] = piece
    THEN CHOOSE n \in DOMAIN MarkerTexts : MarkerTexts[n] = piece
    ELSE 0

\* the name made of `prefixes` times "Copy of ", the base and the marker
Name(prefixes, base, marker) ==
    [i \in 1 .. prefixes |-> "Copy of "] \o << base >>
        \o (IF marker > 0 THEN << MarkerTexts[marker] >> ELSE << >>)

Entry(dir, parent, perms, name) ==
    [dir |-> dir, parent |-> parent, perms |-> perms, name |-> name,
     copyId |-> NoId, origId |-> NoId]

Live(s) == DOMAIN s

\* GoogleDriveEntry.permission_owner_user: the owner permissions of type user
Owners(s, e) == {p \in s[e].perms : role(p) = "OWNER" /\ entry_type(p) = "user"}

permission_owner_user(s, e) == CHOOSE p \in Owners(s, e) : TRUE

is_owned_by(s, e, email) == user_email(permission_owner_user(s, e)) = email

is_dir(s, e) == s[e].dir

is_copy(s, e) == s[e].origId # NoId

custom_property(s, e, key) == IF key = key_copy THEN s[e].copyId ELSE s[e].origId

account_id(cfg) == IF cfg.account_type = PERSONAL THEN Me ELSE Domain

\* the initial tree: top folder 1 holds folder 2, which holds folder 3 (holding
\* file 4) and file 5; the owner of each entry below the top is chosen by Init
TreeParent == <<NoId, TopId, 2, 3, 2>>
TreeDir    == <<TRUE, TRUE, TRUE, FALSE, FALSE>>

InitCount == Len(TreeParent)

\* the tree a plans report written by hand is applied to: the top folder holds
\* a folder, which holds a file
RowTreeDir == <<TRUE, TRUE, FALSE>>

RowCount == Len(RowTreeDir)

Ids == 1 .. (InitCount + MaxNew)

----------------------------------------------------------------------------
(* Remote gateway: what each request does to the store *)

NewId(s) == Cardinality(DOMAIN s) + 1

\* files.list with q = "properties has { key=.. and value=.. }"
get_entries_by_property(s, key, value) ==
    {x \in Live(s) : custom_property(s, x, key) = value}

\* files.create / files.copy: a new entry owned by the calling account, with the
\* body's name, parent and properties
files_create(s, e, dir) ==
    [x \in Live(s) \cup {NewId(s)} |->
        IF x \in Live(s) THEN s[x]
        ELSE [dir |-> dir, parent |-> s[e].parent, perms |-> {"ownMe"},
              name |-> s[e].name, copyId |-> NoId, origId |-> e]]

\* record_copy writing the copy-id property on the new entry
MutRecordCopyOnNew(s, e, new) == [s EXCEPT ![new].copyId = e]

\* GoogleDriveContainer.record_copy: files.update of the original's properties
record_copy(s, e, new) == [s EXCEPT ![e].copyId = new]

\* GoogleDriveActions.create_folder / copy_file: create, then record the copy
create_folder(s, e) == record_copy(files_create(s, e, TRUE), e, NewId(s))

copy_file(s, e) == record_copy(files_create(s, e, FALSE), e, NewId(s))

\* move_entry leaving the entry where it is
MutMoveEntryKeepsParent(s, e, parent) == s

\* GoogleDriveContainer.move_entry: removeParents = old parent, addParents = new
move_entry(s, e, parent) == [s EXCEPT ![e].parent = parent]

rename_entry(s, e, name) == [s EXCEPT ![e].name = name]

delete_permission(s, e, p) == [s EXCEPT ![e].perms = @ \ {p}]

----------------------------------------------------------------------------
(* Pairing resolver *)

PairResult(err, pair) == [err |-> err, pair |-> pair]

\* get_pair_copy_entry taking the first of several matches
MutPairTakesFirstMatch(s, cfg, e) ==
    IF cfg.account_type # PERSONAL THEN PairResult("account", NoId)
    ELSE
      LET owned   == is_owned_by(s, e, account_id(cfg))
          entries == get_entries_by_property(s, IF owned THEN key_copy ELSE key_orig, e)
      IN  IF entries = {} THEN PairResult("ok", NoId)
          ELSE LET first == CHOOSE x \in entries : \A y \in entries : x <= y
               IN  IF custom_property(s, e, IF owned THEN key_orig ELSE key_copy) # first
                   THEN PairResult("mismatch", NoId)
                   ELSE PairResult("ok", first)

\* get_pair_copy_entry trusting the single match without the back reference
MutPairTrustsMatch(s, cfg, e) ==
    IF cfg.account_type # PERSONAL THEN PairResult("account", NoId)
    ELSE
      LET owned   == is_owned_by(s, e, account_id(cfg))
          entries == get_entries_by_property(s, IF owned THEN key_copy ELSE key_orig, e)
      IN  IF Cardinality(entries) > 1 THEN PairResult("many", NoId)
          ELSE IF entries = {} THEN PairResult("ok", NoId)
          ELSE PairResult("ok", CHOOSE x \in entries : TRUE)

\* get_pair_copy_entry querying by the copy-id key whoever owns the entry
MutPairQueriesCopyKey(s, cfg, e) ==
    IF cfg.account_type # PERSONAL THEN PairResult("account", NoId)
    ELSE IF Cardinality(Owners(s, e)) # 1 THEN PairResult("owner", NoId)
    ELSE
      LET entries == get_entries_by_property(s, key_copy, e)
      IN  IF Cardinality(entries) > 1 THEN PairResult("many", NoId)
          ELSE IF Cardinality(entries) < 1 THEN PairResult("ok", NoId)
          ELSE
            LET pair_entry == CHOOSE x \in entries : TRUE
            IN  IF custom_property(s, e, key_orig) # pair_entry
                THEN PairResult("mismatch", NoId)
                ELSE PairResult("ok", pair_entry)

\* GoogleDriveActions.get_pair_copy_entry; err is "ok" when it returns
get_pair_copy_entry(s, cfg, e) ==
    IF cfg.account_type # PERSONAL THEN PairResult("account", NoId)
    ELSE IF Cardinality(Owners(s, e)) # 1 THEN PairResult("owner", NoId)
    ELSE
      LET entry_is_owned == is_owned_by(s, e, account_id(cfg))
          prop_key == IF entry_is_owned THEN key_copy ELSE key_orig
          pair_key == IF entry_is_owned THEN key_orig ELSE key_copy
          entries  == get_entries_by_property(s, prop_key, e)
      IN  IF Cardinality(entries) > 1 THEN PairResult("many", NoId)
          ELSE IF Cardinality(entries) < 1 THEN PairResult("ok", NoId)
          ELSE
            LET pair_entry       == CHOOSE x \in entries : TRUE
                expected_pair_id == custom_property(s, e, pair_key)
            IN  IF expected_pair_id # pair_entry
                THEN PairResult("mismatch", NoId)
                ELSE PairResult("ok", pair_entry)

----------------------------------------------------------------------------
(* Apply executor: the effect of one plan row on the store *)

\* a plan row (PlanReport), reduced to the fields the executor reads
PlanReport(action, e, p, name, begin_email, end_email) ==
    [item_action |-> action, entry_id |-> e, permission_id |-> p,
     end_entry_name |-> name, begin_user_email |-> begin_email,
     end_user_email |-> end_email]

NoName == Name(0, "", 0)
NoPerm == "-"

\* what applying a row gives: an OutcomeReport result (or "raise" when a
\* ValueError leaves the handler), the store afterwards, the mutating calls made
Applied(result, s, ops) == [result |-> result, store |-> s, ops |-> ops]

Raise(s) == Applied("raise", s, 0)

\* PlanReportBuilder.check_create_folder / check_copy_file / check_move_entry /
\* check_rename_file / check_delete_permission: TRUE when the check raises
check_create_folder(s, cfg, e) == ~is_dir(s, e) \/ cfg.account_type # PERSONAL

check_copy_file(s, cfg, e) == is_dir(s, e) \/ cfg.account_type # PERSONAL

check_move_entry(cfg) == cfg.account_type # PERSONAL

check_rename_file(s, cfg, e) == is_dir(s, e) \/ cfg.account_type # BUSINESS

\* the role member is compared with the value of the OWNER member
check_delete_permission(cfg, p) ==
    role(p) = RoleValue("OWNER") \/ cfg.account_type # PERSONAL

\* _apply_create_folder without the lookup of an existing copy
MutCreateFolderWithoutLookup(s, cfg, it) ==
    IF ~cfg.create_owned_folder_and_move_contents THEN Applied(SKIPPED, s, 0)
    ELSE IF check_create_folder(s, cfg, it.entry_id) THEN Raise(s)
    ELSE Applied(SUCCESS, create_folder(s, it.entry_id), 2)

_apply_create_folder(s, cfg, it) ==
    LET e == it.entry_id IN
    IF ~cfg.create_owned_folder_and_move_contents THEN Applied(SKIPPED, s, 0)
    ELSE IF check_create_folder(s, cfg, e) THEN Raise(s)
    ELSE
      LET entry_other == get_pair_copy_entry(s, cfg, e) IN
      IF entry_other.err # "ok" THEN Raise(s)
      ELSE IF entry_other.pair # NoId THEN Applied(SKIPPED, s, 0)
      ELSE Applied(SUCCESS, create_folder(s, e), 2)

\* _apply_copy_file without the lookup of an existing copy
MutCopyFileWithoutLookup(s, cfg, it) ==
    IF ~cfg.create_owned_file_copy THEN Applied(SKIPPED, s, 0)
    ELSE IF check_copy_file(s, cfg, it.entry_id) THEN Raise(s)
    ELSE Applied(SUCCESS, copy_file(s, it.entry_id), 2)

\* _apply_copy_file copying the file before it reports that a copy exists
MutCopyFileSkipsAfterCopy(s, cfg, it) ==
    LET e == it.entry_id IN
    IF ~cfg.create_owned_file_copy THEN Applied(SKIPPED, s, 0)
    ELSE IF check_copy_file(s, cfg, e) THEN Raise(s)
    ELSE
      LET entry_other == get_pair_copy_entry(s, cfg, e) IN
      IF entry_other.err # "ok" THEN Raise(s)
      ELSE IF entry_other.pair # NoId THEN Applied(SKIPPED, copy_file(s, e), 2)
      ELSE Applied(SUCCESS, copy_file(s, e), 2)

_apply_copy_file(s, cfg, it) ==
    LET e == it.entry_id IN
    IF ~cfg.create_owned_file_copy THEN Applied(SKIPPED, s, 0)
    ELSE IF check_copy_file(s, cfg, e) THEN Raise(s)
    ELSE
      LET entry_other == get_pair_copy_entry(s, cfg, e) IN
      IF entry_other.err # "ok" THEN Raise(s)
      ELSE IF entry_other.pair # NoId THEN Applied(SKIPPED, s, 0)
      ELSE Applied(SUCCESS, copy_file(s, e), 2)

\* _apply_rename_file checking that the action is valid before the switch
MutRenameChecksBeforeSwitch(s, cfg, it) ==
    IF check_rename_file(s, cfg, it.entry_id) THEN Raise(s)
    ELSE IF ~cfg.entry_name_delete_prefix_copy_of THEN Applied(SKIPPED, s, 0)
    ELSE IF s[it.entry_id].name = it.end_entry_name THEN Applied(SKIPPED, s, 0)
    ELSE Applied(SUCCESS, rename_entry(s, it.entry_id, it.end_entry_name), 1)

_apply_rename_file(s, cfg, it) ==
    LET e == it.entry_id IN
    IF ~cfg.entry_name_delete_prefix_copy_of THEN Applied(SKIPPED, s, 0)
    ELSE IF check_rename_file(s, cfg, e) THEN Raise(s)
    ELSE IF s[e].name = it.end_entry_name THEN Applied(SKIPPED, s, 0)
    ELSE IF it.end_entry_name = NoName THEN Raise(s)
    ELSE Applied(SUCCESS, rename_entry(s, e, it.end_entry_name), 1)

\* _apply_delete_permission without the test that the permission exists
MutDeletePermissionWithoutLookup(s, cfg, it) ==
    LET e == it.entry_id
        p == it.permission_id
        keep == cfg.permissions_user_emails_keep
    IN
    IF check_delete_permission(cfg, p) THEN Raise(s)
    ELSE IF entry_type(p) = "anyone" /\ ~cfg.permissions_delete_link
      THEN Applied(SKIPPED, s, 0)
    ELSE IF entry_type(p) # "anyone" /\ ~cfg.permissions_delete_other_users
      THEN Applied(SKIPPED, s, 0)
    ELSE IF it.begin_user_email \in keep \/ it.end_user_email \in keep
      THEN Applied(SKIPPED, s, 0)
    ELSE Applied(SUCCESS, delete_permission(s, e, p), 1)

\* _apply_delete_permission looking for the begin user email only in the keep
\* list
MutDeletePermissionKeepsBegin(s, cfg, it) ==
    LET e == it.entry_id
        p == it.permission_id
        keep == cfg.permissions_user_emails_keep
    IN
    IF p \notin s[e].perms THEN Applied(SKIPPED, s, 0)
    ELSE IF check_delete_permission(cfg, p) THEN Raise(s)
    ELSE IF entry_type(p) = "anyone" /\ ~cfg.permissions_delete_link
      THEN Applied(SKIPPED, s, 0)
    ELSE IF entry_type(p) # "anyone" /\ ~cfg.permissions_delete_other_users
      THEN Applied(SKIPPED, s, 0)
    ELSE IF it.begin_user_email \in keep THEN Applied(SKIPPED, s, 0)
    ELSE Applied(SUCCESS, delete_permission(s, e, p), 1)

\* Apply._apply_delete_permission
_apply_delete_permission(s, cfg, it) ==
    LET e == it.entry_id
        p == it.permission_id
        keep == cfg.permissions_user_emails_keep
    IN
    IF p \notin s[e].perms THEN Applied(SKIPPED, s, 0)
    ELSE IF check_delete_permission(cfg, p) THEN Raise(s)
    ELSE IF entry_type(p) = "anyone" /\ ~cfg.permissions_delete_link
      THEN Applied(SKIPPED, s, 0)
    ELSE IF entry_type(p) # "anyone" /\ ~cfg.permissions_delete_other_users
      THEN Applied(SKIPPED, s, 0)
    ELSE IF it.begin_user_email \in keep \/ it.end_user_email \in keep
      THEN Applied(SKIPPED, s, 0)
    ELSE Applied(SUCCESS, delete_permission(s, e, p), 1)

\* _apply_move_entry testing that the found entry is a folder before testing
\* that it is a copy
MutMoveTestsFolderFirst(s, cfg, it) ==
    LET e == it.entry_id IN
    IF ~cfg.create_owned_folder_and_move_contents THEN Applied(SKIPPED, s, 0)
    ELSE IF check_move_entry(cfg) THEN Raise(s)
    ELSE
      LET entry_parent       == s[e].parent
          entry_parent_other == IF entry_parent \in Live(s)
                                THEN get_pair_copy_entry(s, cfg, entry_parent)
                                ELSE PairResult("missing", NoId)
      IN
      IF entry_parent_other.err # "ok" THEN Raise(s)
      ELSE IF entry_parent_other.pair = NoId THEN Applied(FAILED, s, 0)
      ELSE IF ~is_dir(s, entry_parent_other.pair) THEN Applied(FAILED, s, 0)
      ELSE IF ~is_copy(s, entry_parent_other.pair) THEN Applied(SKIPPED, s, 0)
      ELSE
        LET to_move == IF Cardinality(Owners(s, e)) # 1
                       THEN PairResult("owner", NoId)
                       ELSE IF ~is_owned_by(s, e, account_id(cfg))
                       THEN get_pair_copy_entry(s, cfg, e)
                       ELSE PairResult("ok", e)
        IN
        IF to_move.err # "ok" THEN Raise(s)
        ELSE IF to_move.pair = NoId THEN Applied(FAILED, s, 0)
        ELSE IF s[to_move.pair].parent = entry_parent_other.pair
          THEN Applied(SKIPPED, s, 0)
        ELSE Applied(SUCCESS,
                     move_entry(s, to_move.pair, entry_parent_other.pair), 1)

\* _apply_move_entry moving the row's entry, whoever owns it
MutMoveMovesPlanEntry(s, cfg, it) ==
    LET e == it.entry_id IN
    IF ~cfg.create_owned_folder_and_move_contents THEN Applied(SKIPPED, s, 0)
    ELSE IF check_move_entry(cfg) THEN Raise(s)
    ELSE
      LET entry_parent       == s[e].parent
          entry_parent_other == IF entry_parent \in Live(s)
                                THEN get_pair_copy_entry(s, cfg, entry_parent)
                                ELSE PairResult("missing", NoId)
      IN
      IF entry_parent_other.err # "ok" THEN Raise(s)
      ELSE IF entry_parent_other.pair = NoId THEN Applied(FAILED, s, 0)
      ELSE IF ~is_copy(s, entry_parent_other.pair) THEN Applied(SKIPPED, s, 0)
      ELSE IF ~is_dir(s, entry_parent_other.pair) THEN Applied(FAILED, s, 0)
      ELSE IF s[e].parent = entry_parent_other.pair THEN Applied(SKIPPED, s, 0)
      ELSE Applied(SUCCESS, move_entry(s, e, entry_parent_other.pair), 1)

\* _apply_move_entry raising when the current parent has no pair
MutMoveRaisesWithoutParentPair(s, cfg, it) ==
    IF ~cfg.create_owned_folder_and_move_contents THEN Applied(SKIPPED, s, 0)
    ELSE IF check_move_entry(cfg) THEN Raise(s)
    ELSE
      LET parent_other == get_pair_copy_entry(s, cfg, s[it.entry_id].parent)
          to_move      == IF is_owned_by(s, it.entry_id, account_id(cfg))
                          THEN PairResult("ok", it.entry_id)
                          ELSE get_pair_copy_entry(s, cfg, it.entry_id)
      IN  IF parent_other.err # "ok" \/ parent_other.pair = NoId THEN Raise(s)
          ELSE IF ~is_copy(s, parent_other.pair) THEN Applied(SKIPPED, s, 0)
          ELSE IF to_move.err # "ok" THEN Raise(s)
          ELSE IF to_move.pair = NoId THEN Applied(FAILED, s, 0)
          ELSE IF s[to_move.pair].parent = parent_other.pair
            THEN Applied(SKIPPED, s, 0)
          ELSE Applied(SUCCESS, move_entry(s, to_move.pair, parent_other.pair), 1)

_apply_move_entry(s, cfg, it) ==
    LET e == it.entry_id IN
    IF ~cfg.create_owned_folder_and_move_contents THEN Applied(SKIPPED, s, 0)
    ELSE IF check_move_entry(cfg) THEN Raise(s)
    ELSE
      LET entry_parent       == s[e].parent
          entry_parent_other == IF entry_parent \in Live(s)
                                THEN get_pair_copy_entry(s, cfg, entry_parent)
                                ELSE PairResult("missing", NoId)
      IN
      IF entry_parent_other.err # "ok" THEN Raise(s)
      ELSE IF entry_parent_other.pair = NoId THEN Applied(FAILED, s, 0)
      ELSE IF ~is_copy(s, entry_parent_other.pair) THEN Applied(SKIPPED, s, 0)
      ELSE IF ~is_dir(s, entry_parent_other.pair) THEN Applied(FAILED, s, 0)
      ELSE
        LET to_move == IF Cardinality(Owners(s, e)) # 1
                       THEN PairResult("owner", NoId)
                       ELSE IF ~is_owned_by(s, e, account_id(cfg))
                       THEN get_pair_copy_entry(s, cfg, e)
                       ELSE PairResult("ok", e)
        IN
        IF to_move.err # "ok" THEN Raise(s)
        ELSE IF to_move.pair = NoId THEN Applied(FAILED, s, 0)
        ELSE IF s[to_move.pair].parent = entry_parent_other.pair
          THEN Applied(SKIPPED, s, 0)
        ELSE Applied(SUCCESS,
                     move_entry(s, to_move.pair, entry_parent_other.pair), 1)

\* _apply_plan giving SKIPPED for an action it does not know
MutApplyPlanSkipsUnknown(s, cfg, it) ==
    IF it.entry_id = NoId \/ it.entry_id \notin Live(s) THEN Raise(s)
    ELSE CASE it.item_action = CREATE_FOLDER     -> _apply_create_folder(s, cfg, it)
           [] it.item_action = COPY_FILE         -> _apply_copy_file(s, cfg, it)
           [] it.item_action = RENAME_FILE       -> _apply_rename_file(s, cfg, it)
           [] it.item_action = DELETE_PERMISSION -> _apply_delete_permission(s, cfg, it)
           [] it.item_action = MOVE_ENTRY        -> _apply_move_entry(s, cfg, it)
           [] OTHER                              -> Applied(SKIPPED, s, 0)

\* _apply_plan returning the outcome it starts with for an action it does not
\* know
MutApplyPlanReturnsUnknown(s, cfg, it) ==
    IF it.item_action \notin PlanReportActions THEN Applied(UNKNOWN, s, 0)
    ELSE IF it.entry_id = NoId \/ it.entry_id \notin Live(s) THEN Raise(s)
    ELSE CASE it.item_action = CREATE_FOLDER     -> _apply_create_folder(s, cfg, it)
           [] it.item_action = COPY_FILE         -> _apply_copy_file(s, cfg, it)
           [] it.item_action = RENAME_FILE       -> _apply_rename_file(s, cfg, it)
           [] it.item_action = DELETE_PERMISSION -> _apply_delete_permission(s, cfg, it)
           [] it.item_action = MOVE_ENTRY        -> _apply_move_entry(s, cfg, it)

\* Apply._apply_plan
_apply_plan(s, cfg, it) ==
    IF it.item_action \notin PlanReportActions THEN Raise(s)
    ELSE IF it.entry_id = NoId \/ it.entry_id \notin Live(s) THEN Raise(s)
    ELSE CASE it.item_action = CREATE_FOLDER     -> _apply_create_folder(s, cfg, it)
           [] it.item_action = COPY_FILE         -> _apply_copy_file(s, cfg, it)
           [] it.item_action = RENAME_FILE       -> _apply_rename_file(s, cfg, it)
           [] it.item_action = DELETE_PERMISSION -> _apply_delete_permission(s, cfg, it)
           [] it.item_action = MOVE_ENTRY        -> _apply_move_entry(s, cfg, it)

----------------------------------------------------------------------------
(* Traversal and entry path cache *)

RECURSIVE Ascending(_)
\* the members of a set of ids as a sequence in increasing order
Ascending(S) ==
    IF S = {} THEN << >>
    ELSE LET m == CHOOSE x \in S : \A y \in S : x <= y
         IN  <<m>> \o Ascending(S \ {m})

\* GoogleDriveContainer.get_children, orderBy "folder,name": folders first
get_children(s, f) ==
    Ascending({x \in Live(s) : s[x].parent = f /\ s[x].dir})
      \o Ascending({x \in Live(s) : s[x].parent = f /\ ~s[x].dir})

RECURSIVE get_descendants(_, _, _)
RECURSIVE DescendAll(_, _, _, _)
\* GoogleDriveActions.get_descendants: each child, and right after a child that
\* is a folder, its own descendants; depth is the recursion still allowed
get_descendants(s, f, depth) ==
    IF depth = 0 THEN << >> ELSE DescendAll(s, f, get_children(s, f), depth)

RECURSIVE MutDescendAllChildrenFirst(_, _, _, _)
\* a traversal that yields the children of a folder before the descendants of
\* any of them
MutDescendAllChildrenFirst(s, f, children, depth) ==
    IF children = << >> THEN << >>
    ELSE LET c == Head(children)
         IN  <<c>>
             \o MutDescendAllChildrenFirst(s, f, Tail(children), depth)
             \o (IF c # f /\ is_dir(s, c)
                 THEN get_descendants(s, c, depth - 1) ELSE << >>)

DescendAll(s, f, children, depth) ==
    IF children = << >> THEN << >>
    ELSE LET c == Head(children)
         IN  <<c>>
             \o (IF c # f /\ is_dir(s, c)
                 THEN get_descendants(s, c, depth - 1) ELSE << >>)
             \o DescendAll(s, f, Tail(children), depth)

\* BaseManage._iterate_entries: the top entry, then its descendants
_iterate_entries(s) == <<TopId>> \o get_descendants(s, TopId, Cardinality(Live(s)))

RECURSIVE PathUp(_, _, _, _)
\* GoogleDriveEntryCache.path, from the entry upwards; << >> when an id on the
\* way is not cached (ValueError); steps is the number of loop rounds allowed,
\* never used up on the parent links of a tree (the loop itself: PathRound)
PathUp(s, c, e, steps) ==
    IF e \notin c \/ steps = 0 THEN << >>
    ELSE IF e = TopId THEN <<e>>
    ELSE LET up == PathUp(s, c, s[e].parent, steps - 1)
         IN  IF up = << >> THEN << >> ELSE up \o <<e>>

\* root-first path of entry e in cache c
path(s, c, e) == PathUp(s, c, e, Cardinality(Live(s)) + 1)

----------------------------------------------------------------------------
(* Plan builder: the rows planned for one visited entry *)

Planned(err, rows) == [err |-> err, rows |-> rows]

\* PlanReportBuilder.get_create_folder / get_copy_file / get_move_entry /
\* get_rename_file / get_delete_permission: the row, after the builder's check
get_create_folder(e) == PlanReport(CREATE_FOLDER, e, NoPerm, NoName, NoMail, Me)

get_copy_file(s, e) ==
    PlanReport(COPY_FILE, e, NoPerm, s[e].name,
               user_email(permission_owner_user(s, e)), Me)

get_move_entry(s, e) == PlanReport(MOVE_ENTRY, e, NoPerm, s[e].name, Me, Me)

get_rename_file(s, e, new_name) ==
    PlanReport(RENAME_FILE, e, NoPerm, new_name,
               user_email(permission_owner_user(s, e)),
               user_email(permission_owner_user(s, e)))

get_delete_permission(e, p) ==
    PlanReport(DELETE_PERMISSION, e, p, NoName, user_email(p), NoMail)

RECURSIVE CountPrefix(_)
\* the number of leading pieces of a name that are "Copy of " in any case
CountPrefix(name) ==
    IF name # << >> /\ Lower(Head(name)) = "copy of "
    THEN 1 + CountPrefix(Tail(name)) ELSE 0

\* the rename pass of the planner in src: one "Copy of " cut off, nothing counted
MutCleanNameCutsOne(name) ==
    IF name # << >> /\ Head(name) = "Copy of " THEN Tail(name) ELSE name

\* the name without its leading "Copy of " prefixes: their number is added to
\* the count of the marker the name holds, and without one a marker with their
\* number is put at the end of the name
CleanName(name) ==
    LET count   == CountPrefix(name)
        rest    == SubSeq(name, count + 1, Len(name))
        markers == {i \in DOMAIN rest : MarkerCount(rest[i]) > 0}
    IN  IF count = 0 THEN name
        ELSE IF markers = {} THEN rest \o << MarkerTexts[count] >>
        ELSE LET at == CHOOSE i \in markers : \A j \in markers : j <= i
             IN  [rest EXCEPT ![at] = MarkerTexts[MarkerCount(rest[at]) + count]]

\* order of the permissions list of an entry
PermOrder == <<"userOther", "ownMe", "ownOther", "userMe", "anyone", "group",
              "domain">>

\* pass 1 without the lookup of an existing copy
MutUnownedPassWithoutLookup(s, cfg, e) ==
    IF is_owned_by(s, e, account_id(cfg)) THEN Planned("ok", << >>)
    ELSE IF is_dir(s, e) /\ ~cfg.create_owned_folder_and_move_contents
      THEN Planned("ok", << >>)
    ELSE IF ~is_dir(s, e) /\ ~cfg.create_owned_file_copy
      THEN Planned("ok", << >>)
    ELSE IF is_dir(s, e)
      THEN IF check_create_folder(s, cfg, e) THEN Planned("raise", << >>)
           ELSE Planned("ok", <<get_create_folder(e)>>)
      ELSE IF check_copy_file(s, cfg, e) THEN Planned("raise", << >>)
           ELSE Planned("ok", <<get_copy_file(s, e)>>)

\* pass 1: an owned copy of an unowned entry
UnownedPass(s, cfg, e) ==
    IF is_owned_by(s, e, account_id(cfg)) THEN Planned("ok", << >>)
    ELSE IF is_dir(s, e) /\ ~cfg.create_owned_folder_and_move_contents
      THEN Planned("ok", << >>)
    ELSE IF ~is_dir(s, e) /\ ~cfg.create_owned_file_copy
      THEN Planned("ok", << >>)
    ELSE
      LET pair == get_pair_copy_entry(s, cfg, e) IN
      IF pair.err # "ok" THEN Planned("raise", << >>)
      ELSE IF pair.pair # NoId THEN Planned("ok", << >>)
      ELSE IF is_dir(s, e)
        THEN IF check_create_folder(s, cfg, e) THEN Planned("raise", << >>)
             ELSE Planned("ok", <<get_create_folder(e)>>)
        ELSE IF check_copy_file(s, cfg, e) THEN Planned("raise", << >>)
             ELSE Planned("ok", <<get_copy_file(s, e)>>)

\* pass 2 without the test of who owns the parent folder
MutMovePassAnyParent(s, cfg, e, parent) ==
    IF ~cfg.create_owned_folder_and_move_contents THEN Planned("ok", << >>)
    ELSE
      LET pair == IF is_owned_by(s, e, account_id(cfg))
                  THEN PairResult("ok", NoId)
                  ELSE get_pair_copy_entry(s, cfg, e)
      IN
      IF pair.err # "ok" THEN Planned("raise", << >>)
      ELSE IF pair.pair # NoId /\ s[pair.pair].parent \in Live(s)
              /\ is_owned_by(s, s[pair.pair].parent, account_id(cfg))
        THEN Planned("ok", << >>)
      ELSE IF check_move_entry(cfg) THEN Planned("raise", << >>)
      ELSE Planned("ok", <<get_move_entry(s, e)>>)

\* pass 2 without the test for a pair that lies in an owned folder already
MutMovePassIgnoresPair(s, cfg, e, parent) ==
    IF is_owned_by(s, parent, account_id(cfg)) THEN Planned("ok", << >>)
    ELSE IF ~cfg.create_owned_folder_and_move_contents THEN Planned("ok", << >>)
    ELSE IF check_move_entry(cfg) THEN Planned("raise", << >>)
    ELSE Planned("ok", <<get_move_entry(s, e)>>)

\* pass 2: move out of an unowned parent folder
MovePass(s, cfg, e, parent) ==
    IF is_owned_by(s, parent, account_id(cfg)) THEN Planned("ok", << >>)
    ELSE IF ~cfg.create_owned_folder_and_move_contents THEN Planned("ok", << >>)
    ELSE
      LET pair == IF is_owned_by(s, e, account_id(cfg))
                  THEN PairResult("ok", NoId)
                  ELSE get_pair_copy_entry(s, cfg, e)
      IN
      IF pair.err # "ok" THEN Planned("raise", << >>)
      ELSE IF pair.pair # NoId /\ s[pair.pair].parent \in Live(s)
              /\ is_owned_by(s, s[pair.pair].parent, account_id(cfg))
        THEN Planned("ok", << >>)
      ELSE IF check_move_entry(cfg) THEN Planned("raise", << >>)
      ELSE Planned("ok", <<get_move_entry(s, e)>>)

\* pass 3 without the test of who owns the entry
MutRenamePassAnyOwner(s, cfg, e) ==
    IF is_dir(s, e) THEN Planned("ok", << >>)
    ELSE IF CountPrefix(s[e].name) = 0 THEN Planned("ok", << >>)
    ELSE IF ~cfg.entry_name_delete_prefix_copy_of THEN Planned("ok", << >>)
    ELSE IF check_rename_file(s, cfg, e) THEN Planned("raise", << >>)
    ELSE Planned("ok", <<get_rename_file(s, e, CleanName(s[e].name))>>)

\* pass 3: strip "Copy of " from the name of an owned file
RenamePass(s, cfg, e) ==
    IF is_dir(s, e) \/ ~is_owned_by(s, e, account_id(cfg))
      THEN Planned("ok", << >>)
    ELSE IF CountPrefix(s[e].name) = 0 THEN Planned("ok", << >>)
    ELSE IF ~cfg.entry_name_delete_prefix_copy_of THEN Planned("ok", << >>)
    ELSE IF check_rename_file(s, cfg, e) THEN Planned("raise", << >>)
    ELSE Planned("ok", <<get_rename_file(s, e, CleanName(s[e].name))>>)

\* pass 4 planning the deletion of every permission that is not the owner's
\* or the account's own, whatever the switches and the keep list
MutPermissionRowUngated(s, cfg, e, p) ==
    IF p \notin s[e].perms THEN Planned("ok", << >>)
    ELSE IF role(p) = "OWNER" \/ (entry_type(p) = "user" /\ user_email(p) = account_id(cfg))
      THEN Planned("ok", << >>)
    ELSE IF check_delete_permission(cfg, p) THEN Planned("raise", << >>)
    ELSE Planned("ok", <<get_delete_permission(e, p)>>)

\* pass 4 keeping the owner permissions only
MutPermissionRowKeepsOwnerOnly(s, cfg, e, p) ==
    IF p \notin s[e].perms THEN Planned("ok", << >>)
    ELSE IF role(p) = "OWNER" THEN Planned("ok", << >>)
    ELSE IF entry_type(p) = "anyone" /\ ~cfg.permissions_delete_link
      THEN Planned("ok", << >>)
    ELSE IF entry_type(p) # "anyone" /\ ~cfg.permissions_delete_other_users
      THEN Planned("ok", << >>)
    ELSE IF user_email(p) \in cfg.permissions_user_emails_keep
      THEN Planned("ok", << >>)
    ELSE IF check_delete_permission(cfg, p) THEN Planned("raise", << >>)
    ELSE Planned("ok", <<get_delete_permission(e, p)>>)

\* pass 4, one permission: kept when it is an owner permission or the
\* account's own user permission; planned for deletion, the switches and the
\* keep list allowing, when it is a link permission or another user's; any
\* other permission is an error
PermissionRow(s, cfg, e, p) ==
    LET is_owner        == role(p) = "OWNER"
        is_anyone       == entry_type(p) = "anyone"
        is_user         == entry_type(p) = "user"
        is_current_user == user_email(p) = account_id(cfg)
    IN
    IF p \notin s[e].perms THEN Planned("ok", << >>)
    ELSE IF is_owner \/ (is_user /\ is_current_user) THEN Planned("ok", << >>)
    ELSE IF is_anyone \/ (is_user /\ ~is_current_user) THEN
      IF is_anyone /\ ~cfg.permissions_delete_link THEN Planned("ok", << >>)
      ELSE IF ~is_anyone /\ ~cfg.permissions_delete_other_users
        THEN Planned("ok", << >>)
      ELSE IF user_email(p) \in cfg.permissions_user_emails_keep
        THEN Planned("ok", << >>)
      ELSE IF check_delete_permission(cfg, p) THEN Planned("raise", << >>)
      ELSE Planned("ok", <<get_delete_permission(e, p)>>)
    ELSE Planned("raise", << >>)

RECURSIVE PermissionPass(_, _, _, _)
PermissionPass(s, cfg, e, ps) ==
    IF ps = << >> THEN Planned("ok", << >>)
    ELSE LET first == PermissionRow(s, cfg, e, Head(ps))
             rest  == PermissionPass(s, cfg, e, Tail(ps))
         IN  IF first.err # "ok" \/ rest.err # "ok" THEN Planned("raise", << >>)
             ELSE Planned("ok", first.rows \o rest.rows)

\* _gather_changes writing the rows of the move pass before the rows of the
\* unowned-entry pass
MutGatherChangesMoveFirst(s, cfg, entry_path) ==
    LET e == entry_path[Len(entry_path)] IN
    IF Cardinality(Owners(s, e)) # 1 THEN Planned("raise", << >>)
    ELSE IF e = TopId THEN Planned("ok", << >>)
    ELSE
      LET parent == entry_path[Len(entry_path) - 1]
          p1 == UnownedPass(s, cfg, e)
          p2 == MovePass(s, cfg, e, parent)
          p3 == RenamePass(s, cfg, e)
          p4 == PermissionPass(s, cfg, e, PermOrder)
      IN  IF p1.err # "ok" \/ p2.err # "ok" \/ p3.err # "ok" \/ p4.err # "ok"
          THEN Planned("raise", << >>)
          ELSE Planned("ok", p2.rows \o p1.rows \o p3.rows \o p4.rows)

\* _gather_changes without the test for the top folder: the passes that do not
\* look at the parent run on it
MutGatherChangesPlansTop(s, cfg, entry_path) ==
    LET e == entry_path[Len(entry_path)] IN
    IF Cardinality(Owners(s, e)) # 1 THEN Planned("raise", << >>)
    ELSE
      LET p1 == UnownedPass(s, cfg, e)
          p2 == IF e = TopId THEN Planned("ok", << >>)
                ELSE MovePass(s, cfg, e, entry_path[Len(entry_path) - 1])
          p3 == RenamePass(s, cfg, e)
          p4 == PermissionPass(s, cfg, e, PermOrder)
      IN  IF p1.err # "ok" \/ p2.err # "ok" \/ p3.err # "ok" \/ p4.err # "ok"
          THEN Planned("raise", << >>)
          ELSE Planned("ok", p1.rows \o p2.rows \o p3.rows \o p4.rows)

\* Plan._gather_changes: the owner of the entry is resolved; nothing is planned
\* for the top folder; for any other entry the rows of all passes, in pass order
_gather_changes(s, cfg, entry_path) ==
    LET e == entry_path[Len(entry_path)] IN
    IF Cardinality(Owners(s, e)) # 1 THEN Planned("raise", << >>)
    ELSE IF e = TopId THEN Planned("ok", << >>)
    ELSE
      LET parent == entry_path[Len(entry_path) - 1]
          p1 == UnownedPass(s, cfg, e)
          p2 == MovePass(s, cfg, e, parent)
          p3 == RenamePass(s, cfg, e)
          p4 == PermissionPass(s, cfg, e, PermOrder)
      IN  IF p1.err # "ok" \/ p2.err # "ok" \/ p3.err # "ok" \/ p4.err # "ok"
          THEN Planned("raise", << >>)
          ELSE Planned("ok", p1.rows \o p2.rows \o p3.rows \o p4.rows)

----------------------------------------------------------------------------
(* Initial states *)

\* permissions besides the owner's, and names, of the initial entries
TreeShared == << {}, {}, {}, {"userOther"}, {"anyone", "userMe"} >>
TreeName   == << Name(0, "top", 0), Name(0, "a", 0), Name(0, "b", 0),
                Name(0, "c", 0), Name(1, "d", 0) >>

\* the initial tree with owner permission own[i] on entry i
Tree(own) ==
    [i \in 1 .. InitCount |->
        Entry(TreeDir[i], TreeParent[i], {own[i]} \cup TreeShared[i], TreeName[i])]

\* ownerships of the initial tree: the top folder is the account's; below it
\* nothing, one entry or everything is the account's
Trees ==
    {Tree(own) : own \in
        {o \in [1 .. InitCount -> {"ownMe", "ownOther"}] :
            /\ o[TopId] = "ownMe"
            /\ Cardinality({i \in 2 .. InitCount : o[i] = "ownMe"})
                   \in {0, 1, InitCount - 1}}}

ConfigProgram ==
    [account_type : {PERSONAL, BUSINESS},
     permissions_delete_other_users : BOOLEAN,
     permissions_delete_link : BOOLEAN,
     entry_name_delete_prefix_copy_of : BOOLEAN,
     create_owned_file_copy : BOOLEAN,
     create_owned_folder_and_move_contents : BOOLEAN,
     permissions_user_emails_keep : {{}, {Other}}]

\* the number of action switches a config turns off
Disabled(cfg) ==
    Cardinality({f \in {"permissions_delete_other_users", "permissions_delete_link",
                        "entry_name_delete_prefix_copy_of", "create_owned_file_copy",
                        "create_owned_folder_and_move_contents"} : ~cfg[f]})

\* configs of the runs: at most one switch off; a keep list or a business
\* account only with every switch on
Configs ==
    {cfg \in ConfigProgram :
        /\ Disabled(cfg) <= 1
        /\ (cfg.permissions_user_emails_keep # {} \/ cfg.account_type = BUSINESS)
              => Disabled(cfg) = 0
        /\ cfg.permissions_user_emails_keep # {} => cfg.account_type = PERSONAL}

NoLookup == [entry |-> NoId, err |-> "ok", pair |-> NoId]

Init ==
    /\ store \in Trees
    /\ config \in Configs
    /\ pc = "idle"
    /\ queue = << >>
    /\ cache = {}
    /\ planFile = << >>
    /\ edited = FALSE
    /\ planIdx = 0
    /\ outcomes = << >>
    /\ firstPass = << >>
    /\ prevEnd = "init"
    /\ runOps = 0
    /\ runEnd = "init"
    /\ moveFailed = {}
    /\ interventions = 0
    /\ should_exit = FALSE
    /\ lastPair = NoLookup

----------------------------------------------------------------------------
(* Runs: the loop shared by plan and apply *)

\* GracefulExit.change_state: the first SIGINT asks the run to stop
Signal ==
    /\ pc # "idle"
    /\ ~should_exit
    /\ interventions < MaxInterventions
    /\ should_exit' = TRUE
    /\ interventions' = interventions + 1
    /\ UNCHANGED << store, config, pc, queue, cache, planFile, edited, planIdx,
                    outcomes, firstPass, prevEnd, runOps, runEnd, moveFailed,
                    lastPair >>

\* _iteration_check stopping the loop where it logs the progress of a batch
MutIterationCheckStopsAtBatch(exit, index) ==
    exit \/ (index > 0 /\ (index + 1) % 5 = 0)

\* _iteration_check never asking the loop to stop
MutIterationCheckNeverStops(exit, index) == FALSE

\* BaseManage._iteration_check: TRUE to stop iterating
_iteration_check(exit, index) == exit

\* write_item putting the row at the head of the report file
MutWriteItemAtHead(rows, item) == << item >> \o rows

\* ReportCsv.write_item: the row goes to the end of the report file
write_item(rows, item) == Append(rows, item)

\* the report file emptied when the run leaves it
MutFinishDropsRows(rows) == << >>

\* ReportCsv.__exit__ / finish: the file is closed, the rows written stay
finish(rows) == rows

RECURSIVE write_items(_, _)
\* the loop around write_item
write_items(rows, items) ==
    IF items = << >> THEN rows
    ELSE write_items(write_item(rows, Head(items)), Tail(items))

----------------------------------------------------------------------------
(* Plan run *)

\* Plan.run up to the loop: a new plans report, an empty cache, the traversal
PlanStart ==
    /\ pc = "idle"
    /\ pc' = "plan"
    /\ queue' = _iterate_entries(store)
    /\ cache' = {}
    /\ planFile' = << >>
    /\ edited' = FALSE
    /\ firstPass' = << >>
    /\ prevEnd' = "init"
    /\ runOps' = 0
    /\ runEnd' = "running"
    /\ should_exit' = FALSE
    /\ UNCHANGED << store, config, planIdx, outcomes, moveFailed, interventions,
                    lastPair >>

\* _process_one creating the copy of an unowned entry while it plans
MutProcessOneCreates(s, cfg, c, entry) ==
    LET added      == c \cup {entry}
        entry_path == path(s, added, entry)
        planned    == IF entry_path = << >> THEN Planned("raise", << >>)
                      ELSE _gather_changes(s, cfg, entry_path)
        creates    == /\ planned.rows # << >>
                      /\ planned.rows[1].item_action \in {CREATE_FOLDER, COPY_FILE}
    IN  [err |-> planned.err, rows |-> planned.rows, cache |-> added,
         store |-> IF creates
                   THEN _apply_plan(s, cfg, planned.rows[1]).store ELSE s]

\* Plan._process_one: the entry joins the cache, its path is resolved and the
\* rows of its changes are written; the remote store is only read
_process_one(s, cfg, c, entry) ==
    LET added      == c \cup {entry}
        entry_path == path(s, added, entry)
        planned    == IF entry_path = << >> THEN Planned("raise", << >>)
                      ELSE _gather_changes(s, cfg, entry_path)
    IN  [err |-> planned.err, rows |-> planned.rows, cache |-> added, store |-> s]

\* one round of the loop of _iterate_entries; the run ends with the last entry
\* ("planned"), a stop request ("plan-stopped") or a ValueError ("plan-error")
PlanProcessOne ==
    /\ pc = "plan"
    /\ queue # << >>
    /\ LET entry == Head(queue)
           done  == _process_one(store, config, cache, entry)
           last  == Tail(queue) = << >>
           stop  == /\ entry # TopId
                    /\ _iteration_check(should_exit, Cardinality(cache) - 1)
       IN  /\ cache' = done.cache
           /\ DOMAIN done.store \subseteq Ids
           /\ store' = done.store
           /\ runOps' = IF done.store = store THEN runOps ELSE runOps + 1
           /\ IF done.err # "ok"
              THEN /\ pc' = "idle"
                   /\ runEnd' = "plan-error"
                   /\ UNCHANGED << queue, planFile >>
              ELSE /\ planFile' = write_items(planFile, done.rows)
                   /\ queue' = Tail(queue)
                   /\ pc' = IF last \/ stop THEN "idle" ELSE "plan"
                   /\ runEnd' = IF last THEN "planned"
                                ELSE IF stop THEN "plan-stopped" ELSE "running"
    /\ UNCHANGED << config, edited, planIdx, outcomes, firstPass, prevEnd,
                    moveFailed, interventions, should_exit, lastPair >>

\* the operator reviews the plans report and removes one row before applying it
OperatorRemovesRow ==
    /\ pc = "idle"
    /\ runEnd = "planned"
    /\ ~edited
    /\ interventions < MaxInterventions
    /\ \E i \in 1 .. Len(planFile) :
          planFile' = SubSeq(planFile, 1, i - 1) \o SubSeq(planFile, i + 1, Len(planFile))
    /\ edited' = TRUE
    /\ interventions' = interventions + 1
    /\ UNCHANGED << store, config, pc, queue, cache, planIdx, outcomes, firstPass,
                    prevEnd, runOps, runEnd, moveFailed, should_exit, lastPair >>

----------------------------------------------------------------------------
(* Apply run *)

OutcomeReport(it, result) == [item |-> it, result_name |-> result]

\* a MOVE_ENTRY row that fails because the current parent has no pair
FailsForParent(s, cfg, it) ==
    /\ it.item_action = MOVE_ENTRY
    /\ _apply_plan(s, cfg, it).result = FAILED
    /\ get_pair_copy_entry(s, cfg, s[it.entry_id].parent) = PairResult("ok", NoId)

\* Apply.run up to the loop: the plans report is read, a new outcomes report
ApplyStart ==
    /\ pc = "idle"
    /\ runEnd \in {"planned", "applied", "apply-error", "apply-stopped", "crashed",
                  "gateway-error"}
    /\ planFile # << >>
    /\ pc' = "apply"
    /\ planIdx' = 0
    /\ firstPass' = outcomes
    /\ outcomes' = << >>
    /\ prevEnd' = runEnd
    /\ runOps' = 0
    /\ runEnd' = "running"
    /\ should_exit' = FALSE
    /\ UNCHANGED << store, config, queue, cache, planFile, edited, moveFailed,
                    interventions, lastPair >>

\* one round of the loop of Apply.run: process_one for the next plan row, then
\* _iteration_check; the run ends with the last row ("applied"), a stop request
\* ("apply-stopped") or a ValueError ("apply-error")
ApplyProcessOne ==
    /\ pc = "apply"
    /\ planIdx < Len(planFile)
    /\ LET plan    == planFile[planIdx + 1]
           applied == _apply_plan(store, config, plan)
           last    == planIdx + 1 = Len(planFile)
           stop    == _iteration_check(should_exit, planIdx)
           written == write_item(outcomes, OutcomeReport(plan, applied.result))
       IN  IF applied.result = "raise"
           THEN /\ pc' = "idle"
                /\ runEnd' = "apply-error"
                /\ outcomes' = finish(outcomes)
                /\ UNCHANGED << store, planIdx, runOps, moveFailed >>
           ELSE /\ DOMAIN applied.store \subseteq Ids
                /\ store' = applied.store
                /\ outcomes' = IF last \/ stop THEN finish(written) ELSE written
                /\ runOps' = runOps + applied.ops
                /\ planIdx' = planIdx + 1
                /\ moveFailed' = IF FailsForParent(store, config, plan)
                                 THEN moveFailed \cup {plan.entry_id}
                                 ELSE moveFailed
                /\ pc' = IF last \/ stop THEN "idle" ELSE "apply"
                /\ runEnd' = IF last THEN "applied"
                             ELSE IF stop THEN "apply-stopped" ELSE "running"
    /\ UNCHANGED << config, queue, cache, planFile, edited, firstPass, prevEnd,
                    interventions, should_exit, lastPair >>

\* what Apply.run returns after its loop: False when a stop was requested
RunResult(exit) == ~exit

\* the run is killed between two plan rows
ApplyInterrupted ==
    /\ pc = "apply"
    /\ interventions < MaxInterventions
    /\ interventions' = interventions + 1
    /\ pc' = "idle"
    /\ runEnd' = "crashed"
    /\ UNCHANGED << store, config, queue, cache, planFile, edited, planIdx,
                    outcomes, firstPass, prevEnd, runOps, moveFailed, should_exit,
                    lastPair >>

\* the run is killed inside GoogleDriveActions.create_folder / copy_file, after
\* the new entry is created and before the original's property is updated
ApplyInterruptedInCreate ==
    /\ pc = "apply"
    /\ interventions < MaxInterventions
    /\ interventions' = interventions + 1
    /\ planIdx < Len(planFile)
    /\ LET plan == planFile[planIdx + 1]
       IN  /\ plan.item_action \in {CREATE_FOLDER, COPY_FILE}
           /\ _apply_plan(store, config, plan).result = SUCCESS
           /\ NewId(store) \in Ids
           /\ store' = files_create(store, plan.entry_id,
                                    plan.item_action = CREATE_FOLDER)
    /\ runOps' = runOps + 1
    /\ pc' = "idle"
    /\ runEnd' = "crashed"
    /\ UNCHANGED << config, queue, cache, planFile, edited, planIdx, outcomes,
                    firstPass, prevEnd, moveFailed, should_exit, lastPair >>

\* a request of the row's handler fails after the retries of the gateway and
\* the HttpError leaves Apply.run: at a request before the first mutating one,
\* or, in create_folder / copy_file, at the update of the original's property
ApplyGatewayError ==
    /\ pc = "apply"
    /\ interventions < MaxInterventions
    /\ interventions' = interventions + 1
    /\ planIdx < Len(planFile)
    /\ LET plan    == planFile[planIdx + 1]
           creates == /\ plan.item_action \in {CREATE_FOLDER, COPY_FILE}
                      /\ _apply_plan(store, config, plan).result = SUCCESS
                      /\ NewId(store) \in Ids
       IN  \E created \in {c \in BOOLEAN : c => creates} :
              /\ store' = IF created
                           THEN files_create(store, plan.entry_id,
                                             plan.item_action = CREATE_FOLDER)
                           ELSE store
              /\ runOps' = IF created THEN runOps + 1 ELSE runOps
    /\ outcomes' = finish(outcomes)
    /\ pc' = "idle"
    /\ runEnd' = "gateway-error"
    /\ UNCHANGED << config, queue, cache, planFile, edited, planIdx, firstPass,
                    prevEnd, moveFailed, should_exit, lastPair >>

Next ==
    \/ Signal
    \/ PlanStart
    \/ PlanProcessOne
    \/ OperatorRemovesRow
    \/ ApplyStart
    \/ ApplyProcessOne
    \/ ApplyInterrupted
    \/ ApplyInterruptedInCreate
    \/ ApplyGatewayError

Spec == Init /\ [][Next]_vars

----------------------------------------------------------------------------
(* Plan rows applied one at a time, in any order, from any plans report *)

\* the rows a plans report can hold for the entries of the store
Items(s) ==
    {PlanReport(a, e, NoPerm, s[e].name, NoMail, Me) :
        a \in {CREATE_FOLDER, COPY_FILE, MOVE_ENTRY}, e \in Live(s)}

InitItems ==
    /\ Init
    /\ config.permissions_user_emails_keep = {}
    /\ Disabled(config) = 0 \/ ~config.create_owned_folder_and_move_contents
                            \/ ~config.create_owned_file_copy

ItemIds == 1 .. (InitCount + MaxItemNew)

\* Apply.process_one for one row; outcomes holds the row's outcome alone
ItemProcessOne ==
    \E plan \in Items(store) :
        LET applied == _apply_plan(store, config, plan) IN
        /\ DOMAIN applied.store \subseteq ItemIds
        /\ store' = applied.store
        /\ outcomes' = IF applied.result = "raise" THEN << >>
                       ELSE write_item(<< >>, OutcomeReport(plan, applied.result))
        /\ runEnd' = IF applied.result = "raise" THEN "apply-error" ELSE "applied"
        /\ runOps' = applied.ops
        /\ UNCHANGED << config, pc, queue, cache, planFile, edited, planIdx,
                        firstPass, prevEnd, moveFailed, interventions,
                        should_exit, lastPair >>

\* the run is killed inside create_folder / copy_file of one row
ItemInterruptedInCreate ==
    \E plan \in Items(store) :
        /\ plan.item_action \in {CREATE_FOLDER, COPY_FILE}
        /\ _apply_plan(store, config, plan).result = SUCCESS
        /\ NewId(store) \in ItemIds
        /\ store' = files_create(store, plan.entry_id,
                                 plan.item_action = CREATE_FOLDER)
        /\ outcomes' = << >>
        /\ runEnd' = "crashed"
        /\ runOps' = 1
        /\ UNCHANGED << config, pc, queue, cache, planFile, edited, planIdx,
                        firstPass, prevEnd, moveFailed, interventions,
                        should_exit, lastPair >>

NextItems ==
    \/ ItemProcessOne
    \/ ItemInterruptedInCreate

SpecItems == InitItems /\ [][NextItems]_vars

----------------------------------------------------------------------------
(* The pairing lookup on stores with any pairing properties *)

\* entries of the stores the lookup is tried on
PairCount == 3

\* stores of PairCount files in the top folder's place whose two pairing
\* properties hold any id or nothing; entry 2 is the account's or not
PairStores ==
    {[i \in 1 .. PairCount |->
        [dir |-> FALSE, parent |-> NoId,
         perms |-> {IF i = 2 THEN own ELSE "ownMe"},
         name |-> Name(0, "f", 0), copyId |-> c[i], origId |-> o[i]]] :
      own \in {"ownMe", "ownOther"},
      c \in [1 .. PairCount -> {NoId, 2, 3}],
      o \in [1 .. PairCount -> {NoId, 2, 3}]}

InitPair ==
    /\ store \in PairStores
    /\ config \in {cfg \in Configs : cfg.permissions_user_emails_keep = {}
                                     /\ Disabled(cfg) = 0}
    /\ pc = "idle"
    /\ queue = << >>
    /\ cache = {}
    /\ planFile = << >>
    /\ edited = FALSE
    /\ planIdx = 0
    /\ outcomes = << >>
    /\ firstPass = << >>
    /\ prevEnd = "init"
    /\ runOps = 0
    /\ runEnd = "init"
    /\ moveFailed = {}
    /\ interventions = 0
    /\ should_exit = FALSE
    /\ lastPair = NoLookup

\* one call of get_pair_copy_entry; lastPair keeps the entry and what came back
PairLookup ==
    \E e \in Live(store) :
        LET found == get_pair_copy_entry(store, config, e) IN
        /\ lastPair' = [entry |-> e, err |-> found.err, pair |-> found.pair]
        /\ UNCHANGED << store, config, pc, queue, cache, planFile, edited,
                        planIdx, outcomes, firstPass, prevEnd, runOps, runEnd,
                        moveFailed, interventions, should_exit >>

NextPair == PairLookup

SpecPair == InitPair /\ [][NextPair]_vars

----------------------------------------------------------------------------
(* An apply run of a plans report written by hand: any rows, in any order *)

\* rows of the plans report of such a run
MaxRows == 2

\* entries the remote store may create during such a run
MaxRowNew == 2

RowIds == 1 .. (RowCount + MaxRowNew)

\* an item_action that is no member of PlanReportActions
TRANSFER_OWNERSHIP == "transfer-ownership"

\* the rows a plans report can hold for the entries of the store
Rows(s) ==
    {PlanReport(a, e, NoPerm, NoName, NoMail, Me) :
        a \in {CREATE_FOLDER, COPY_FILE, MOVE_ENTRY, TRANSFER_OWNERSHIP},
        e \in Live(s)}
    \cup {PlanReport(RENAME_FILE, e, NoPerm, n, Me, Me) :
            e \in Live(s), n \in {Name(0, "d", 1), Name(0, "z", 0)}}
    \cup UNION {{get_delete_permission(e, p) :
                    p \in s[e].perms \cup {"group", "userOther"}} :
                e \in Live(s)}
    \cup UNION {{PlanReport(DELETE_PERMISSION, e, p, NoName, NoMail, user_email(p)) :
                    p \in s[e].perms} : e \in Live(s)}

\* the top folder holds folder 2, which holds file 3, shared with another user
\* and by link and named "Copy of d"; folder and file are the account's or not
RowStores ==
    {[i \in 1 .. RowCount |->
        Entry(RowTreeDir[i], i - 1,
              {own[i]} \cup (IF i = RowCount THEN {"userOther", "anyone"} ELSE {}),
              IF i = RowCount THEN Name(1, "d", 0) ELSE Name(0, "a", 0))] :
      own \in {o \in [1 .. RowCount -> {"ownMe", "ownOther"}] : o[TopId] = "ownMe"}}

\* configs of such a run: at most one switch off, a keep list only with every
\* switch on
RowConfigs ==
    {cfg \in ConfigProgram :
        /\ Disabled(cfg) <= 1
        /\ cfg.permissions_user_emails_keep # {} => Disabled(cfg) = 0}

InitRows ==
    /\ store \in RowStores
    /\ config \in RowConfigs
    /\ pc = "apply"
    /\ queue = << >>
    /\ cache = {}
    /\ planFile = << >>
    /\ edited = FALSE
    /\ planIdx = 0
    /\ outcomes = << >>
    /\ firstPass = << >>
    /\ prevEnd = "init"
    /\ runOps = 0
    /\ runEnd = "running"
    /\ moveFailed = {}
    /\ interventions = 0
    /\ should_exit = FALSE
    /\ lastPair = NoLookup

\* one round of the loop of Apply.run for a row the operator wrote; the row
\* joins planFile as it is read
RowProcessOne ==
    /\ pc = "apply"
    /\ Len(planFile) < MaxRows
    /\ \E plan \in Rows(store) :
          LET applied == _apply_plan(store, config, plan)
              last    == Len(planFile) + 1 = MaxRows
          IN  /\ planFile' = Append(planFile, plan)
              /\ IF applied.result = "raise"
                 THEN /\ pc' = "idle"
                      /\ runEnd' = "apply-error"
                      /\ UNCHANGED << store, planIdx, outcomes, runOps >>
                 ELSE /\ DOMAIN applied.store \subseteq RowIds
                      /\ store' = applied.store
                      /\ outcomes' = write_item(outcomes,
                                                OutcomeReport(plan, applied.result))
                      /\ runOps' = runOps + applied.ops
                      /\ planIdx' = planIdx + 1
                      /\ pc' = IF last THEN "idle" ELSE "apply"
                      /\ runEnd' = IF last THEN "applied" ELSE "running"
    /\ UNCHANGED << config, queue, cache, edited, firstPass, prevEnd, moveFailed,
                    interventions, should_exit, lastPair >>

NextRows == RowProcessOne

SpecRows == InitRows /\ [][NextRows]_vars

----------------------------------------------------------------------------
(* The rename pass on any name *)

\* pieces of the names the rename pass is tried on
MaxNameLen == 4

NamePieces == {"Copy of ", "copy of ", "report", ".pdf", MarkerTexts[1]}

Names == UNION {[1 .. n -> NamePieces] : n \in 1 .. MaxNameLen}

\* the file of the stores the rename pass is tried on
NameFile == 2

\* the top folder holds one file of the account with any of the names
NameStores ==
    {[i \in 1 .. NameFile |->
        Entry(i = TopId, i - 1, {"ownMe"},
              IF i = NameFile THEN n ELSE Name(0, "top", 0))] : n \in Names}

InitNames ==
    /\ store \in NameStores
    /\ config \in {cfg \in Configs : cfg.permissions_user_emails_keep = {}
                                     /\ Disabled(cfg) = 0}
    /\ pc = "plan"
    /\ queue = << NameFile >>
    /\ cache = {TopId}
    /\ planFile = << >>
    /\ edited = FALSE
    /\ planIdx = 0
    /\ outcomes = << >>
    /\ firstPass = << >>
    /\ prevEnd = "init"
    /\ runOps = 0
    /\ runEnd = "running"
    /\ moveFailed = {}
    /\ interventions = 0
    /\ should_exit = FALSE
    /\ lastPair = NoLookup

\* the rename pass for the file: the row with the cleaned name is written when
\* a prefix was cut off and the switch is on
RenameOne ==
    /\ pc = "plan"
    /\ queue # << >>
    /\ LET e        == Head(queue)
           new_name == CleanName(store[e].name)
       IN  planFile' =
               IF new_name # store[e].name /\ config.entry_name_delete_prefix_copy_of
               THEN write_item(planFile, get_rename_file(store, e, new_name))
               ELSE planFile
    /\ queue' = Tail(queue)
    /\ cache' = cache \cup {Head(queue)}
    /\ pc' = "idle"
    /\ runEnd' = "planned"
    /\ UNCHANGED << store, config, edited, planIdx, outcomes, firstPass, prevEnd,
                    runOps, moveFailed, interventions, should_exit, lastPair >>

NextNames == RenameOne

SpecNames == InitNames /\ [][NextNames]_vars

----------------------------------------------------------------------------
(* The rename pass of a plan run on a folder or a file of any owner *)

\* the entry in the top folder is a folder or a file, the account's or not,
\* and has any name
RenameStores ==
    {[i \in 1 .. NameFile |->
        Entry(i = TopId \/ dir, i - 1, {IF i = TopId THEN "ownMe" ELSE own},
              IF i = NameFile THEN n ELSE Name(0, "top", 0))] :
      dir \in BOOLEAN, own \in {"ownMe", "ownOther"}, n \in Names}

InitRenames ==
    /\ store \in RenameStores
    /\ config \in {cfg \in ConfigProgram :
                      /\ cfg.permissions_user_emails_keep = {}
                      /\ Disabled(cfg) = 0
                           \/ (Disabled(cfg) = 1 /\ ~cfg.entry_name_delete_prefix_copy_of)}
    /\ pc = "plan"
    /\ queue = << NameFile >>
    /\ cache = {TopId}
    /\ planFile = << >>
    /\ edited = FALSE
    /\ planIdx = 0
    /\ outcomes = << >>
    /\ firstPass = << >>
    /\ prevEnd = "init"
    /\ runOps = 0
    /\ runEnd = "running"
    /\ moveFailed = {}
    /\ interventions = 0
    /\ should_exit = FALSE
    /\ lastPair = NoLookup

\* the rename pass for the visited entry, and the rows it gives written
RenamePassOne ==
    /\ pc = "plan"
    /\ queue # << >>
    /\ LET planned == RenamePass(store, config, Head(queue)) IN
       IF planned.err # "ok"
       THEN /\ runEnd' = "plan-error"
            /\ UNCHANGED << queue, planFile >>
       ELSE /\ planFile' = write_items(planFile, planned.rows)
            /\ queue' = Tail(queue)
            /\ runEnd' = "planned"
    /\ cache' = cache \cup {Head(queue)}
    /\ pc' = "idle"
    /\ UNCHANGED << store, config, edited, planIdx, outcomes, firstPass, prevEnd,
                    runOps, moveFailed, interventions, should_exit, lastPair >>

NextRenames == RenamePassOne

SpecRenames == InitRenames /\ [][NextRenames]_vars

----------------------------------------------------------------------------
(* A plan run on one entry with any permissions, under any configuration *)

\* the permissions an entry may have besides its owner's
SharedPerms == {"userMe", "userOther", "anyone", "group", "domain"}

\* the entry in the top folder is a folder or a file, the account's or not,
\* and has any of the other permissions
PermStores ==
    {[i \in 1 .. NameFile |->
        Entry(i = TopId \/ dir, i - 1,
              IF i = TopId THEN {"ownMe"} ELSE {own} \cup shared,
              Name(0, "a", 0))] :
      dir \in BOOLEAN, own \in {"ownMe", "ownOther"}, shared \in SUBSET SharedPerms}

InitPerms ==
    /\ store \in PermStores
    /\ config \in ConfigProgram
    /\ pc = "plan"
    /\ queue = << NameFile >>
    /\ cache = {TopId}
    /\ planFile = << >>
    /\ edited = FALSE
    /\ planIdx = 0
    /\ outcomes = << >>
    /\ firstPass = << >>
    /\ prevEnd = "init"
    /\ runOps = 0
    /\ runEnd = "running"
    /\ moveFailed = {}
    /\ interventions = 0
    /\ should_exit = FALSE
    /\ lastPair = NoLookup

NextPerms == PlanProcessOne

SpecPerms == InitPerms /\ [][NextPerms]_vars

----------------------------------------------------------------------------
(* An apply run of MOVE_ENTRY rows on a store that earlier runs, or a hand,
   left with any pairing properties *)

\* rows of the plans report of such a run
MaxMoves == 2

\* the entries of such a store: the top folder, the folder in it, the file in
\* that folder, the entry the folder may be paired with, the copy of the file
MoveTop    == 1
MoveFolder == 2
MoveFile   == 3
MoveOther  == 4
MoveCopy   == 5

MoveProps(others) == {NoId} \cup others

\* the folder and the file are the account's or not; the entry the folder may
\* be paired with is a folder or a file in the top folder; each pairing
\* property of the folder and of that entry names the other one or nothing;
\* the copy of the file is in the top folder or in the entry the folder may be
\* paired with, and the file names its copy or nothing
MoveStores ==
    {[i \in MoveTop .. MoveCopy |->
        CASE i = MoveTop ->
               Entry(TRUE, NoId, {"ownMe"}, Name(0, "top", 0))
          [] i = MoveFolder ->
               [Entry(TRUE, MoveTop, {own[MoveFolder]}, Name(0, "a", 0))
                    EXCEPT !.copyId = c[MoveFolder], !.origId = o[MoveFolder]]
          [] i = MoveFile ->
               [Entry(FALSE, MoveFolder, {own[MoveFile]}, Name(0, "d", 0))
                    EXCEPT !.copyId = c[MoveFile]]
          [] i = MoveOther ->
               [Entry(dir, MoveTop, {"ownMe"}, Name(0, "a", 0))
                    EXCEPT !.copyId = c[MoveOther], !.origId = o[MoveOther]]
          [] OTHER ->
               [Entry(FALSE, at, {own[MoveCopy]}, Name(0, "d", 0))
                    EXCEPT !.origId = MoveFile]] :
      own \in [{MoveFolder, MoveFile, MoveCopy} -> {"ownMe", "ownOther"}],
      dir \in BOOLEAN,
      at  \in {MoveTop, MoveOther},
      c   \in {f \in [{MoveFolder, MoveFile, MoveOther} -> MoveProps({MoveFolder, MoveOther, MoveCopy})] :
                 /\ f[MoveFolder] \in MoveProps({MoveOther})
                 /\ f[MoveFile]   \in MoveProps({MoveCopy})
                 /\ f[MoveOther]  \in MoveProps({MoveFolder})},
      o   \in {f \in [{MoveFolder, MoveOther} -> MoveProps({MoveFolder, MoveOther})] :
                 /\ f[MoveFolder] \in MoveProps({MoveOther})
                 /\ f[MoveOther]  \in MoveProps({MoveFolder})}}

\* the MOVE_ENTRY rows a plans report can hold for the entries of the store
MoveRows(s) ==
    {PlanReport(MOVE_ENTRY, e, NoPerm, s[e].name, Me, Me) : e \in Live(s)}

InitMoves ==
    /\ store \in MoveStores
    /\ config \in {cfg \in ConfigProgram :
                      /\ Disabled(cfg) = 0
                      /\ cfg.permissions_user_emails_keep = {}}
    /\ pc = "apply"
    /\ queue = << >>
    /\ cache = {}
    /\ planFile = << >>
    /\ edited = FALSE
    /\ planIdx = 0
    /\ outcomes = << >>
    /\ firstPass = << >>
    /\ prevEnd = "init"
    /\ runOps = 0
    /\ runEnd = "running"
    /\ moveFailed = {}
    /\ interventions = 0
    /\ should_exit = FALSE
    /\ lastPair = NoLookup

\* one round of the loop of Apply.run for a MOVE_ENTRY row; the row joins
\* planFile as it is read
MoveProcessOne ==
    /\ pc = "apply"
    /\ Len(planFile) < MaxMoves
    /\ \E plan \in MoveRows(store) :
          LET applied == _apply_plan(store, config, plan)
              last    == Len(planFile) + 1 = MaxMoves
          IN  /\ planFile' = Append(planFile, plan)
              /\ IF applied.result = "raise"
                 THEN /\ pc' = "idle"
                      /\ runEnd' = "apply-error"
                      /\ UNCHANGED << store, planIdx, outcomes, runOps >>
                 ELSE /\ store' = applied.store
                      /\ outcomes' = write_item(outcomes,
                                                OutcomeReport(plan, applied.result))
                      /\ runOps' = runOps + applied.ops
                      /\ planIdx' = planIdx + 1
                      /\ pc' = IF last THEN "idle" ELSE "apply"
                      /\ runEnd' = IF last THEN "applied" ELSE "running"
    /\ UNCHANGED << config, queue, cache, edited, firstPass, prevEnd, moveFailed,
                    interventions, should_exit, lastPair >>

NextMoves == MoveProcessOne

SpecMoves == InitMoves /\ [][NextMoves]_vars

----------------------------------------------------------------------------
(* GoogleDriveEntryCache.path, one round of its loop at a time, on a cache
   with any content *)

\* ids an entry of the cache may have
MaxPathIds == 3

PathIds == 1 .. MaxPathIds

\* entries the result list is followed for: one more than there are ids, so a
\* list this long holds some entry twice; the loop goes on past it
PathResultCap == MaxPathIds + 1

\* the entries that may be cached: each with any id, or none, as parent_id
PathStores ==
    {[i \in PathIds |-> Entry(TRUE, up[i], {"ownMe"}, Name(0, "a", 0))] :
      up \in [PathIds -> {NoId} \cup PathIds]}

\* the state of a call of path(entry_id): err is "walking" while the loop runs,
\* "ok" after the return, "raise" after the ValueError
PathCall(entry_id, err, current_id) ==
    [entry |-> entry_id, err |-> err, pair |-> current_id]

\* the locals of the call
path_entry_id   == lastPair.entry
path_current_id == lastPair.pair
path_result     == queue

RECURSIVE Reverse(_)
\* list.reverse
Reverse(seq) ==
    IF seq = << >> THEN << >>
    ELSE Append(Reverse(Tail(seq)), Head(seq))

\* path is called with any id on a cache that holds any of the entries;
\* result = [] and current_id = entry_id
InitPath ==
    /\ store \in PathStores
    /\ cache \in SUBSET PathIds
    /\ lastPair \in {PathCall(e, "walking", e) : e \in PathIds}
    /\ queue = << >>
    /\ pc = "path"
    /\ config \in {cfg \in ConfigProgram :
                      /\ cfg.account_type = PERSONAL
                      /\ cfg.permissions_user_emails_keep = {}
                      /\ Disabled(cfg) = 0}
    /\ planFile = << >>
    /\ edited = FALSE
    /\ planIdx = 0
    /\ outcomes = << >>
    /\ firstPass = << >>
    /\ prevEnd = "init"
    /\ runOps = 0
    /\ runEnd = "running"
    /\ moveFailed = {}
    /\ interventions = 0
    /\ should_exit = FALSE

\* a loop that takes an id without an entry for the end of the walk
MutPathRoundNoRaise ==
    /\ pc = "path"
    /\ lastPair.err = "walking"
    /\ LET appended == IF Len(queue) < PathResultCap
                       THEN Append(queue, path_current_id) ELSE queue
       IN  IF path_current_id = TopId \/ path_current_id \notin cache
           THEN /\ queue' = Reverse(appended)
                /\ lastPair' = [lastPair EXCEPT !.err = "ok"]
           ELSE /\ queue' = appended
                /\ lastPair' = [lastPair EXCEPT
                                   !.pair = store[path_current_id].parent]
    /\ UNCHANGED << store, config, pc, cache, planFile, edited, planIdx,
                    outcomes, firstPass, prevEnd, runOps, runEnd, moveFailed,
                    interventions, should_exit >>

\* one round of "while True": the cache is asked for current_id; without an
\* entry the call raises; the entry joins the result; at the top folder the
\* loop ends and the reversed result is returned; otherwise current_id becomes
\* the entry's parent_id
PathRound ==
    /\ pc = "path"
    /\ lastPair.err = "walking"
    /\ IF path_current_id \notin cache
       THEN /\ lastPair' = [lastPair EXCEPT !.err = "raise"]
            /\ UNCHANGED queue
       ELSE LET appended == IF Len(queue) < PathResultCap
                            THEN Append(queue, path_current_id) ELSE queue
            IN  IF path_current_id = TopId
                THEN /\ queue' = Reverse(appended)
                     /\ lastPair' = [lastPair EXCEPT !.err = "ok"]
                ELSE /\ queue' = appended
                     /\ lastPair' = [lastPair EXCEPT
                                        !.pair = store[path_current_id].parent]
    /\ UNCHANGED << store, config, pc, cache, planFile, edited, planIdx,
                    outcomes, firstPass, prevEnd, runOps, runEnd, moveFailed,
                    interventions, should_exit >>

NextPath == PathRound

SpecPath == InitPath /\ [][NextPath]_vars

\* the call is the only thing running: its loop is never held up
SpecPathFair == SpecPath /\ WF_vars(PathRound)

----------------------------------------------------------------------------
(* Plan runs on trees of any shape *)

\* entries of the remote store, the top folder among them
MaxWalkIds == 4

WalkIds == 1 .. MaxWalkIds

RECURSIVE EndsUp(_, _, _)
\* the parents of e lead to the top folder or to no parent within steps entries
EndsUp(s, e, steps) ==
    IF e = NoId \/ e = TopId THEN TRUE
    ELSE IF steps = 0 THEN FALSE
    ELSE EndsUp(s, s[e].parent, steps - 1)

\* stores as the remote store keeps them: every entry has one parent or none,
\* a parent is a folder, and no folder is its own ancestor; names (the order
\* of the ids) and kinds are free, and an entry may lie outside the top folder
WalkStores ==
    {s \in {[i \in WalkIds |->
                Entry(i = TopId \/ dir[i], IF i = TopId THEN NoId ELSE up[i],
                      {IF i = TopId THEN "ownMe" ELSE own}, Name(0, "a", 0))] :
              up \in [WalkIds -> {NoId} \cup WalkIds], dir \in [WalkIds -> BOOLEAN],
              own \in {"ownMe", "ownOther"}} :
        \A i \in WalkIds :
            /\ s[i].parent # NoId => s[s[i].parent].dir
            /\ EndsUp(s, i, MaxWalkIds)}

InitWalk ==
    /\ store \in WalkStores
    /\ config \in {cfg \in ConfigProgram :
                      /\ cfg.account_type = PERSONAL
                      /\ cfg.permissions_user_emails_keep = {}
                      /\ Disabled(cfg) = 0}
    /\ pc = "idle"
    /\ queue = << >>
    /\ cache = {}
    /\ planFile = << >>
    /\ edited = FALSE
    /\ planIdx = 0
    /\ outcomes = << >>
    /\ firstPass = << >>
    /\ prevEnd = "init"
    /\ runOps = 0
    /\ runEnd = "init"
    /\ moveFailed = {}
    /\ interventions = 0
    /\ should_exit = FALSE
    /\ lastPair = NoLookup

NextWalk ==
    \/ PlanStart
    \/ PlanProcessOne

SpecWalk == InitWalk /\ [][NextWalk]_vars

----------------------------------------------------------------------------
(* Plan runs on a top folder of any owner, name and permissions *)

\* the file in the top folder
TopFile == 2

\* the names the top folder may have
TopNames == {Name(0, "top", 0), Name(1, "top", 0), Name(2, "top", 1)}

\* the top folder has no owner, the account or another user as its owner, any
\* of the names and any other permissions; the file in it is another user's
TopStores ==
    {[i \in 1 .. TopFile |->
        IF i = TopId THEN Entry(TRUE, NoId, owner \cup shared, n)
        ELSE Entry(FALSE, TopId, {"ownOther"}, Name(1, "a", 0))] :
      owner \in {{}, {"ownMe"}, {"ownOther"}}, shared \in SUBSET SharedPerms,
      n \in TopNames}

InitTop ==
    /\ store \in TopStores
    /\ config \in ConfigProgram
    /\ pc = "idle"
    /\ queue = << >>
    /\ cache = {}
    /\ planFile = << >>
    /\ edited = FALSE
    /\ planIdx = 0
    /\ outcomes = << >>
    /\ firstPass = << >>
    /\ prevEnd = "init"
    /\ runOps = 0
    /\ runEnd = "init"
    /\ moveFailed = {}
    /\ interventions = 0
    /\ should_exit = FALSE
    /\ lastPair = NoLookup

NextTop ==
    \/ PlanStart
    \/ PlanProcessOne

SpecTop == InitTop /\ [][NextTop]_vars

----------------------------------------------------------------------------
(* Tidy-properties runs *)

\* TidyProperties.process_one: remove_keys
remove_keys ==
    {key_orig, key_copy, "CustomOriginalFileId", "CustomCopyFileId",
     "CustomPreviousAccountId", "CustomNewAccountId"}

\* keys of shared properties an entry may carry besides the two pairing keys:
\* two that earlier versions of the program wrote, one of another program
TidyKeys == {"CustomCopyFileId", "CustomPreviousAccountId", "colour"}

\* the value under each of these keys
TidyValue == 7

\* None
None == NoId

\* an entry with shared properties besides the pairing properties
TidyEntry(dir, parent, copy, orig, keys) ==
    [dir |-> dir, parent |-> parent, perms |-> {"ownMe"}, name |-> Name(0, "a", 0),
     copyId |-> copy, origId |-> orig, props |-> [k \in keys |-> TidyValue]]

\* GoogleDriveEntry.properties_shared: the mapping of all shared properties
properties_shared(s, e) ==
    [k \in DOMAIN s[e].props
            \cup (IF s[e].copyId # NoId THEN {key_copy} ELSE {})
            \cup (IF s[e].origId # NoId THEN {key_orig} ELSE {}) |->
        IF k = key_copy THEN s[e].copyId
        ELSE IF k = key_orig THEN s[e].origId
        ELSE s[e].props[k]]

\* files.update with body {"properties": all_props}: a key with value null is
\* cleared, any other key of the body is set, the other properties stay
files_update_properties(s, e, all_props) ==
    LET old   == properties_shared(s, e)
        keys  == {k \in DOMAIN old \cup DOMAIN all_props :
                     IF k \in DOMAIN all_props THEN all_props[k] # None ELSE TRUE}
        new   == [k \in keys |-> IF k \in DOMAIN all_props THEN all_props[k]
                                 ELSE old[k]]
    IN  [s EXCEPT ![e].copyId = IF key_copy \in keys THEN new[key_copy] ELSE NoId,
                  ![e].origId = IF key_orig \in keys THEN new[key_orig] ELSE NoId,
                  ![e].props  = [k \in keys \ {key_copy, key_orig} |-> new[k]]]

\* process_one that sends the cleared keys alone and a store that replaces the
\* properties by the body
MutProcessOneDropsOthers(s, e) ==
    LET old       == properties_shared(s, e)
        new_props == [k \in DOMAIN old |->
                         IF k \in remove_keys THEN None ELSE old[k]]
    IN  IF old = new_props THEN Applied("ok", s, 0)
        ELSE Applied("ok", [s EXCEPT ![e].copyId = NoId, ![e].origId = NoId,
                                     ![e].props = << >>], 1)

\* TidyProperties.process_one: new_props is properties_shared with None under
\* every key of remove_keys it has; without a difference nothing is sent,
\* otherwise the properties are updated with new_props
process_one(s, e) ==
    LET old       == properties_shared(s, e)
        new_props == [k \in DOMAIN old |->
                         IF k \in remove_keys THEN None ELSE old[k]]
    IN  IF old = new_props THEN Applied("ok", s, 0)
        ELSE Applied("ok", files_update_properties(s, e, new_props), 1)

\* the file in the folder in the top folder
TidyFolder == 2
TidyFile   == 3

\* a folder with a file in it in the top folder; each of the three carries any
\* of the pairing properties and any of the other properties
TidyStores ==
    {[i \in 1 .. TidyFile |->
        TidyEntry(i # TidyFile, i - 1,
                  IF copy[i] THEN (i % TidyFile) + 1 ELSE NoId,
                  IF orig[i] THEN ((i + 1) % TidyFile) + 1 ELSE NoId,
                  keys[i])] :
      copy \in [1 .. TidyFile -> BOOLEAN], orig \in [1 .. TidyFile -> BOOLEAN],
      keys \in [1 .. TidyFile -> SUBSET TidyKeys]}

InitTidy ==
    /\ store \in TidyStores
    /\ config \in {cfg \in ConfigProgram :
                      /\ cfg.account_type = PERSONAL
                      /\ cfg.permissions_user_emails_keep = {}
                      /\ Disabled(cfg) = 0}
    /\ pc = "idle"
    /\ queue = << >>
    /\ cache = {}
    /\ planFile = << >>
    /\ edited = FALSE
    /\ planIdx = 0
    /\ outcomes = << >>
    /\ firstPass = << >>
    /\ prevEnd = "init"
    /\ runOps = 0
    /\ runEnd = "init"
    /\ moveFailed = {}
    /\ interventions = 0
    /\ should_exit = FALSE
    /\ lastPair = NoLookup

\* TidyProperties.run up to the loop
TidyStart ==
    /\ pc = "idle"
    /\ pc' = "tidy"
    /\ queue' = _iterate_entries(store)
    /\ cache' = {}
    /\ prevEnd' = runEnd
    /\ runOps' = 0
    /\ runEnd' = "running"
    /\ should_exit' = FALSE
    /\ UNCHANGED << store, config, planFile, edited, planIdx, outcomes, firstPass,
                    moveFailed, interventions, lastPair >>

\* one round of the loop of _iterate_entries with process_one of
\* TidyProperties; the run ends with the last entry ("tidied") or a stop
\* request ("tidy-stopped")
TidyProcessOne ==
    /\ pc = "tidy"
    /\ queue # << >>
    /\ LET entry == Head(queue)
           done  == process_one(store, entry)
           last  == Tail(queue) = << >>
           stop  == /\ entry # TopId
                    /\ _iteration_check(should_exit, Cardinality(cache) - 1)
       IN  /\ cache' = cache \cup {entry}
           /\ store' = done.store
           /\ runOps' = runOps + done.ops
           /\ queue' = Tail(queue)
           /\ pc' = IF last \/ stop THEN "idle" ELSE "tidy"
           /\ runEnd' = IF last THEN "tidied"
                        ELSE IF stop THEN "tidy-stopped" ELSE "running"
    /\ UNCHANGED << config, planFile, edited, planIdx, outcomes, firstPass,
                    prevEnd, moveFailed, interventions, should_exit, lastPair >>

NextTidy ==
    \/ Signal
    \/ TidyStart
    \/ TidyProcessOne

SpecTidy == InitTidy /\ [][NextTidy]_vars

----------------------------------------------------------------------------
(* Properties *)

\* the entries the query of a lookup for e matches: by the copy-id key when e
\* is the account's, by the original-id key when it is not
Matches(s, cfg, e) ==
    get_entries_by_property(
        s, IF is_owned_by(s, e, account_id(cfg)) THEN key_copy ELSE key_orig, e)

\* the id e's own pairing property names: its original when e is the account's,
\* its copy when it is not
BackReference(s, cfg, e) ==
    custom_property(
        s, e, IF is_owned_by(s, e, account_id(cfg)) THEN key_orig ELSE key_copy)

\* the latest run is an apply run
ApplyLatest ==
    pc = "apply" \/ runEnd \in {"applied", "apply-error", "apply-stopped", "crashed",
                                 "gateway-error"}

\* the store is as the latest plan run read it
PlanFresh ==
    pc = "plan" \/ runEnd \in {"planned", "plan-stopped", "plan-error"}

\* the current apply run applies again, to the unchanged store, the plans
\* report that the run before it applied to the end
SecondPass == ApplyLatest /\ prevEnd = "applied"

Copies(s, e) == get_entries_by_property(s, key_orig, e)

\* C2: after any sequence of CREATE_FOLDER and COPY_FILE rows, applied in any
\* order and any number of times, no entry that is not the account's has more
\* than one entry whose original-id property names it
C2_OneCopyPerUnownedOriginal ==
    \A e \in Live(store) :
        ~is_owned_by(store, e, account_id(config))
            => Cardinality(Copies(store, e)) <= 1

\* C2 as stated: no entry at all has more than one copy
C2_OneCopyPerOriginal ==
    \A e \in Live(store) : Cardinality(Copies(store, e)) <= 1

C2_WitnessCopyFound ==
    /\ Len(outcomes) = 1
    /\ outcomes[1].item.item_action \in {CREATE_FOLDER, COPY_FILE}
    /\ outcomes[1].result_name = SKIPPED
    /\ ~is_owned_by(store, outcomes[1].item.entry_id, account_id(config))
    /\ Cardinality(Copies(store, outcomes[1].item.entry_id)) = 1

\* the run resumes a plans report whose previous apply run was interrupted
Resumed == ApplyLatest /\ prevEnd \in {"crashed", "apply-stopped"}

\* C3: an apply run that resumes a plans report after an interruption (between
\* two rows, or between the two remote calls of one create) raises no
\* structural error and leaves no original with a second copy
C3_ResumeRunsToEnd ==
    Resumed =>
        /\ runEnd # "apply-error"
        /\ \A e \in Live(store) : Cardinality(Copies(store, e)) <= 1

\* the MOVE_ENTRY row lacks its owned copy: the current parent has no pair, or
\* the plan entry is not the account's and has no pair
LacksCopy(s, cfg, plan) ==
    /\ plan.item_action = MOVE_ENTRY
    /\ s[plan.entry_id].parent \in Live(s)
    /\ \/ Matches(s, cfg, s[plan.entry_id].parent) = {}
       \/ /\ ~is_owned_by(s, plan.entry_id, account_id(cfg))
          /\ Matches(s, cfg, plan.entry_id) = {}

\* the same with what the executor needs to get as far as the missing copy: the
\* move switch on, a personal account, and, for the plan entry's pair to be
\* looked for, a current parent whose lookup gives an owned copy
LacksCopyWhenMoving(s, cfg, plan) ==
    /\ plan.item_action = MOVE_ENTRY
    /\ s[plan.entry_id].parent \in Live(s)
    /\ cfg.create_owned_folder_and_move_contents
    /\ cfg.account_type = PERSONAL
    /\ \/ Matches(s, cfg, s[plan.entry_id].parent) = {}
       \/ /\ ~is_owned_by(s, plan.entry_id, account_id(cfg))
          /\ Matches(s, cfg, plan.entry_id) = {}
          /\ LET other == get_pair_copy_entry(s, cfg, s[plan.entry_id].parent)
             IN  other.err = "ok" /\ other.pair # NoId /\ is_copy(s, other.pair)

\* C6: with the move switch on and a personal account, applying a MOVE_ENTRY
\* row whose owned copy is missing (the current parent has no pair, or the
\* parent's pair is an owned copy and the plan entry is not the account's and
\* has no pair) gives FAILED, raises nothing and leaves the store as it was
C6_MoveWithoutCopyFails ==
    \A plan \in Items(store) :
        LacksCopyWhenMoving(store, config, plan) =>
            /\ _apply_plan(store, config, plan).result = FAILED
            /\ _apply_plan(store, config, plan).store = store

\* C6 as stated: whatever the switch and the account
C6_MoveWithoutCopyAlwaysFails ==
    \A plan \in Items(store) :
        LacksCopy(store, config, plan) =>
            /\ _apply_plan(store, config, plan).result = FAILED
            /\ _apply_plan(store, config, plan).store = store

C6_WitnessFailedForEntry ==
    /\ Len(outcomes) = 1
    /\ outcomes[1].result_name = FAILED
    /\ LacksCopyWhenMoving(store, config, outcomes[1].item)
    /\ Matches(store, config, store[outcomes[1].item.entry_id].parent) # {}

\* the next row of the apply run is the MOVE_ENTRY row of an unowned file in
\* an unowned folder, the row failed in an earlier run because the folder had
\* no copy, the plans report was written since and is applied as written for
\* the first time, and the folder's copy now exists
MoveRetried(a) ==
    /\ pc = "apply"
    /\ planIdx < Len(planFile)
    /\ planFile[planIdx + 1].item_action = MOVE_ENTRY
    /\ planFile[planIdx + 1].entry_id = a
    /\ a \in moveFailed
    /\ prevEnd = "planned"
    /\ ~edited
    /\ ~is_dir(store, a)
    /\ ~is_owned_by(store, a, account_id(config))
    /\ ~is_owned_by(store, store[a].parent, account_id(config))
    /\ get_pair_copy_entry(store, config, store[a].parent).err = "ok"
    /\ get_pair_copy_entry(store, config, store[a].parent).pair # NoId

\* the round of the loop for that row writes SUCCESS and leaves the file's
\* copy in the folder's copy
MovedIntoCopy(a) ==
    /\ planIdx' = planIdx + 1
    /\ outcomes'[planIdx + 1].result_name = SUCCESS
    /\ store'[a].copyId # NoId
    /\ store'[store'[a].copyId].parent = store'[store'[a].parent].copyId

C9_OneOutcomePerRow ==
    ApplyLatest =>
        /\ Len(outcomes) = planIdx
        /\ planIdx <= Len(planFile)
        /\ \A i \in 1 .. Len(outcomes) :
              /\ outcomes[i].item = planFile[i]
              /\ outcomes[i].result_name \in {SUCCESS, SKIPPED, FAILED}
        /\ (pc = "idle" /\ planIdx < Len(planFile))
              => (should_exit \/ runEnd \in {"apply-error", "crashed",
                                              "gateway-error"})

C9_WitnessGoesOnAfterFailed ==
    /\ runEnd = "applied"
    /\ Len(outcomes) = Len(planFile)
    /\ \E i, j, k \in 1 .. Len(outcomes) :
          /\ i < k /\ j < k
          /\ outcomes[i].result_name = FAILED
          /\ outcomes[j].result_name = SKIPPED
          /\ outcomes[k].result_name = SUCCESS

Queried == lastPair.entry # NoId /\ config.account_type = PERSONAL

\* C4: a pairing lookup whose query matches more than one entry raises a fatal
\* error, and one whose query matches no entry returns nothing
C4_ManyRaisesNoneReturnsNothing ==
    Queried =>
        LET entries == Matches(store, config, lastPair.entry) IN
        /\ Cardinality(entries) > 1 => lastPair.err \notin {"ok"}
        /\ entries = {} => lastPair.err = "ok" /\ lastPair.pair = NoId

C4_WitnessMany ==
    /\ Queried
    /\ Cardinality(Matches(store, config, lastPair.entry)) > 1
    /\ lastPair.err = "many"

\* C5: a pairing lookup whose query matches exactly one entry returns that entry
\* when the two back references agree (the match names the entry, the entry
\* names the match), and raises a fatal error when they do not
C5_OneMatchNeedsBackReference ==
    (Queried /\ Cardinality(Matches(store, config, lastPair.entry)) = 1) =>
        LET e     == lastPair.entry
            match == CHOOSE x \in Matches(store, config, e) : TRUE
            agree == /\ BackReference(store, config, e) = match
                     /\ match \in Matches(store, config, e)
        IN  IF agree THEN lastPair.err = "ok" /\ lastPair.pair = match
            ELSE lastPair.err \notin {"ok"} /\ lastPair.pair = NoId

C5_WitnessMismatch ==
    /\ Queried
    /\ Cardinality(Matches(store, config, lastPair.entry)) = 1
    /\ BackReference(store, config, lastPair.entry)
          \notin Matches(store, config, lastPair.entry)
    /\ lastPair.err = "mismatch"

\* the step reads a row of a plans report written by hand
RowRead == pc = "apply" /\ Len(planFile') = Len(planFile) + 1

\* the row that step reads
ReadRow == planFile'[Len(planFile')]

\* the step stops the run with an error: no outcome, no mutating call
RowRaises ==
    /\ runEnd' = "apply-error"
    /\ outcomes' = outcomes
    /\ runOps' = runOps
    /\ store' = store

\* the step writes the outcome `result` for the row it read
RowGives(result) ==
    /\ Len(outcomes') = Len(outcomes) + 1
    /\ outcomes'[Len(outcomes')] = OutcomeReport(ReadRow, result)

\* C11: applying a DELETE_PERMISSION row whose permission id names an owner
\* permission of the current entry stops the run with a fatal error before
\* any delete call
C11_OwnerPermissionNeverDeleted ==
    [][(/\ RowRead
        /\ ReadRow.item_action = DELETE_PERMISSION
        /\ ReadRow.permission_id \in store[ReadRow.entry_id].perms
        /\ role(ReadRow.permission_id) = "OWNER")
            => RowRaises]_vars

\* the DELETE_PERMISSION rows of the latest plans report
DeleteRows ==
    {i \in 1 .. Len(planFile) : planFile[i].item_action = DELETE_PERMISSION}

Unmarked(name) == SelectSeq(name, LAMBDA piece : MarkerCount(piece) = 0)

RECURSIVE MarkerSum(_)
\* the sum of the counts of the markers of a name
MarkerSum(name) ==
    IF name = << >> THEN 0 ELSE MarkerCount(Head(name)) + MarkerSum(Tail(name))

\* the first and the second example of the rename counting
CopyOfCopyOfReport == << "Copy of ", "Copy of ", "report", ".pdf" >>
CopyOfReportCopy1  == << "Copy of ", "report", MarkerTexts[1], ".pdf" >>

StopsOnError == pc = "apply" /\ runEnd' \in {"apply-error", "gateway-error"}

\* C14: when an apply run stops on an error at row k of the plans report, the
\* outcomes report keeps the outcomes of rows 1 .. k-1 as they were written
\* and holds no outcome for row k or a later row, and every entry of the
\* remote store stays as the rows before, and the requests of row k that went
\* through, left it
C14_ErrorKeepsOutcomes ==
    [][StopsOnError =>
          /\ outcomes' = outcomes
          /\ Len(outcomes') = planIdx'
          /\ planIdx' = planIdx
          /\ planIdx < Len(planFile)
          /\ \A i \in 1 .. Len(outcomes') : outcomes'[i].item = planFile[i]
          /\ \A e \in Live(store) : e \in Live(store') /\ store'[e] = store[e]]_vars

\* the run stopped on an error at a create row after the new entry was made;
\* rows before it had created an entry and recorded it
C14_WitnessStoppedAfterSuccess ==
    /\ runEnd = "gateway-error"
    /\ planIdx < Len(planFile)
    /\ Len(outcomes) = planIdx
    /\ \E i \in 1 .. Len(outcomes) :
          /\ outcomes[i].result_name = SUCCESS
          /\ outcomes[i].item.item_action = CREATE_FOLDER
          /\ store[outcomes[i].item.entry_id].copyId \in Live(store)
    /\ \E x \in Live(store) :
          /\ store[x].origId = planFile[planIdx + 1].entry_id
          /\ store[planFile[planIdx + 1].entry_id].copyId = NoId

\* C15: a row read by an apply run after a stop request is processed to its
\* end (the store gets all the changes of the row and the outcome is written),
\* the loop then ends without reading another row, and the run returns False,
\* also when that row was the last of the plans report
C15_StopAfterRowInProgress ==
    [][(pc = "apply" /\ should_exit /\ planIdx' = planIdx + 1) =>
          LET plan == planFile[planIdx + 1] IN
          /\ store' = _apply_plan(store, config, plan).store
          /\ outcomes' = Append(outcomes,
                                OutcomeReport(plan, _apply_plan(store, config, plan).result))
          /\ pc' = "idle"
          /\ runEnd' \in {"applied", "apply-stopped"}
          /\ RunResult(should_exit') = FALSE]_vars

\* a stop request came while the last row was in progress: the row created an
\* entry, every row has its outcome, and the run returns False
C15_WitnessStoppedAtLastRow ==
    /\ runEnd = "applied"
    /\ should_exit
    /\ Len(outcomes) = Len(planFile)
    /\ outcomes[Len(outcomes)].result_name = SUCCESS
    /\ RunResult(should_exit) = FALSE

\* C16: applying a row whose action is none of create-folder, copy-file,
\* rename-file, delete-permission, move-entry stops the run with an error: the
\* store is left as it was, no mutating call is made, no outcome is written
C16_UnknownActionRaises ==
    [][(RowRead /\ ReadRow.item_action \notin PlanReportActions) => RowRaises]_vars

\* the run stopped at such a row after a row that created a folder
C16_WitnessUnknownAfterCreate ==
    /\ runEnd = "apply-error"
    /\ Len(planFile) = 2
    /\ planFile[2].item_action = TRANSFER_OWNERSHIP
    /\ Len(outcomes) = 1
    /\ outcomes[1].item.item_action = CREATE_FOLDER
    /\ outcomes[1].result_name = SUCCESS

\* the row creates a copy of the kind of its entry
CreatesOwnKind(s, plan) ==
    \/ plan.item_action = CREATE_FOLDER /\ is_dir(s, plan.entry_id)
    \/ plan.item_action = COPY_FILE /\ ~is_dir(s, plan.entry_id)

\* entry e has its pair: one entry answers the query for e, and the pairing
\* property of e names that entry
HasPair(s, cfg, e) ==
    /\ Cardinality(Owners(s, e)) = 1
    /\ Cardinality(Matches(s, cfg, e)) = 1
    /\ BackReference(s, cfg, e) \in Matches(s, cfg, e)

\* C17: on a personal account, applying a CREATE_FOLDER row of a folder or a
\* COPY_FILE row of a file whose pair exists gives SKIPPED, creates no entry
\* and updates no property
C17_PairedOriginalSkipped ==
    [][(/\ RowRead
        /\ CreatesOwnKind(store, ReadRow)
        /\ config.account_type = PERSONAL
        /\ HasPair(store, config, ReadRow.entry_id))
            => (RowGives(SKIPPED) /\ store' = store /\ runOps' = runOps)]_vars

\* a folder that is not the account's was copied by the first row, the second
\* row for the same folder is skipped
C17_WitnessSkippedAfterCreate ==
    /\ Len(outcomes) = 2
    /\ outcomes[1].item.item_action = CREATE_FOLDER
    /\ outcomes[1].result_name = SUCCESS
    /\ outcomes[2].item = outcomes[1].item
    /\ outcomes[2].result_name = SKIPPED
    /\ ~is_owned_by(store, outcomes[1].item.entry_id, account_id(config))
    /\ Cardinality(Live(store)) = RowCount + 1

\* the step applied a CREATE_FOLDER or COPY_FILE row with outcome SUCCESS
CreateSucceeds ==
    /\ RowRead
    /\ ReadRow.item_action \in {CREATE_FOLDER, COPY_FILE}
    /\ RowGives(SUCCESS)

\* after the step one new entry exists, it and the row's entry name each other
\* by the two pairing properties, the new entry has the name and the parent of
\* the row's entry, and the pairing lookup for the row's entry returns it
PairedWithNew ==
    LET e       == ReadRow.entry_id
        created == Live(store') \ Live(store)
    IN  /\ Cardinality(created) = 1
        /\ \A new \in created :
              /\ store'[new].origId = e
              /\ store'[e].copyId = new
              /\ store'[new].name = store[e].name
              /\ store'[new].parent = store[e].parent
              /\ get_pair_copy_entry(store', config, e) = PairResult("ok", new)

\* C18: after a CREATE_FOLDER or COPY_FILE row gave SUCCESS for an entry that
\* is not the account's, the new entry's original-id property is the entry's
\* id, the entry's copy-id property is the new entry's id, the new entry has
\* the entry's name and parent, and the pairing lookup for the entry returns
\* the new entry
C18_SuccessPairsUnowned ==
    [][(/\ CreateSucceeds
        /\ ~is_owned_by(store, ReadRow.entry_id, account_id(config)))
            => PairedWithNew]_vars

\* C18 as stated: whoever owns the row's entry
C18_SuccessPairs ==
    [][CreateSucceeds => PairedWithNew]_vars

\* the file that is not the account's was copied: the copy and the file name
\* each other
C18_WitnessCopied ==
    /\ Len(outcomes) = 1
    /\ outcomes[1].item.item_action = COPY_FILE
    /\ outcomes[1].result_name = SUCCESS
    /\ ~is_owned_by(store, outcomes[1].item.entry_id, account_id(config))
    /\ store[outcomes[1].item.entry_id].copyId = RowCount + 1
    /\ store[RowCount + 1].origId = outcomes[1].item.entry_id

\* the switch of the row's action is off
SwitchOff(cfg, plan) ==
    \/ /\ plan.item_action \in {CREATE_FOLDER, MOVE_ENTRY}
       /\ ~cfg.create_owned_folder_and_move_contents
    \/ plan.item_action = COPY_FILE /\ ~cfg.create_owned_file_copy
    \/ plan.item_action = RENAME_FILE /\ ~cfg.entry_name_delete_prefix_copy_of

\* C19: applying a CREATE_FOLDER, COPY_FILE, RENAME_FILE or MOVE_ENTRY row
\* whose switch is off gives SKIPPED and leaves the store as it was, whatever
\* the account type, the entry and the pairing properties of the store
C19_SwitchOffSkips ==
    [][(RowRead /\ SwitchOff(config, ReadRow))
            => (RowGives(SKIPPED) /\ store' = store /\ runOps' = runOps)]_vars

\* a RENAME_FILE row of a folder on a personal account, which the handler
\* would refuse with an error were the switch on, is skipped
C19_WitnessSkippedNotRefused ==
    /\ ~config.entry_name_delete_prefix_copy_of
    /\ config.account_type = PERSONAL
    /\ Len(outcomes) = 1
    /\ outcomes[1].item.item_action = RENAME_FILE
    /\ is_dir(store, outcomes[1].item.entry_id)
    /\ outcomes[1].result_name = SKIPPED

\* C20: with the rename switch on, applying a RENAME_FILE row of a file whose
\* name is the row's end name gives SKIPPED and renames nothing; otherwise it
\* gives SUCCESS and the file has the row's end name
C20_RenameSkipsOrRenames ==
    [][(/\ RowRead
        /\ ReadRow.item_action = RENAME_FILE
        /\ config.entry_name_delete_prefix_copy_of
        /\ ~is_dir(store, ReadRow.entry_id))
            => IF store[ReadRow.entry_id].name = ReadRow.end_entry_name
               THEN RowGives(SKIPPED) /\ store' = store
               ELSE /\ RowGives(SUCCESS)
                    /\ store'[ReadRow.entry_id].name = ReadRow.end_entry_name]_vars

\* the step reads a DELETE_PERMISSION row
DeleteRead == RowRead /\ ReadRow.item_action = DELETE_PERMISSION

\* C21: applying a DELETE_PERMISSION row whose permission id names no
\* permission of the current entry gives SKIPPED and makes no delete call,
\* whatever the switches, the keep list and the account type
C21_AbsentPermissionSkipped ==
    [][(/\ DeleteRead
        /\ ReadRow.permission_id \notin store[ReadRow.entry_id].perms)
            => (RowGives(SKIPPED) /\ store' = store /\ runOps' = runOps)]_vars

\* with every switch on and no keep list, a permission was deleted by the
\* first row and the second row, naming it again, was skipped
C21_WitnessDeletedThenSkipped ==
    /\ Disabled(config) = 0
    /\ config.permissions_user_emails_keep = {}
    /\ Len(outcomes) = 2
    /\ outcomes[1].item.item_action = DELETE_PERMISSION
    /\ outcomes[1].result_name = SUCCESS
    /\ outcomes[2].item = outcomes[1].item
    /\ outcomes[2].result_name = SKIPPED

\* the switch of the type of permission p is on
GateOn(cfg, p) ==
    IF entry_type(p) = "anyone" THEN cfg.permissions_delete_link
    ELSE cfg.permissions_delete_other_users

\* the row may be carried out: the switch of the permission's type is on and
\* neither user email of the row is in the keep list
DeleteAllowed(cfg, plan) ==
    /\ GateOn(cfg, plan.permission_id)
    /\ plan.begin_user_email \notin cfg.permissions_user_emails_keep
    /\ plan.end_user_email \notin cfg.permissions_user_emails_keep

\* the step reads a DELETE_PERMISSION row naming a permission of the current
\* entry that is not an owner permission
DeleteOfNonOwner ==
    /\ DeleteRead
    /\ ReadRow.permission_id \in store[ReadRow.entry_id].perms
    /\ role(ReadRow.permission_id) # "OWNER"

\* the step deletes the row's permission and gives SUCCESS when the row may be
\* carried out, and gives SKIPPED and deletes nothing when it may not
DeletesIfAllowed ==
    IF DeleteAllowed(config, ReadRow)
    THEN /\ RowGives(SUCCESS)
         /\ store' = [store EXCEPT ![ReadRow.entry_id].perms =
                                       @ \ {ReadRow.permission_id}]
         /\ runOps' = runOps + 1
    ELSE RowGives(SKIPPED) /\ store' = store /\ runOps' = runOps

\* C22: on a personal account, applying a DELETE_PERMISSION row for an
\* existing non-owner permission deletes it and gives SUCCESS when the switch
\* of its type is on and neither user email of the row is in the keep list,
\* and gives SKIPPED and deletes nothing in every other case
C22_DeleteGatedPersonal ==
    [][(DeleteOfNonOwner /\ config.account_type = PERSONAL)
            => DeletesIfAllowed]_vars

\* C22 as stated: whatever the account type
C22_DeleteGated ==
    [][DeleteOfNonOwner => DeletesIfAllowed]_vars

\* a row with the kept email as its end user email was skipped, with every
\* switch on
C22_WitnessKeptByEndEmail ==
    /\ Disabled(config) = 0
    /\ config.account_type = PERSONAL
    /\ Len(outcomes) = 1
    /\ outcomes[1].item.item_action = DELETE_PERMISSION
    /\ outcomes[1].item.permission_id \in store[outcomes[1].item.entry_id].perms
    /\ outcomes[1].item.begin_user_email = NoMail
    /\ outcomes[1].item.end_user_email \in config.permissions_user_emails_keep
    /\ outcomes[1].result_name = SKIPPED

\* the step reads a MOVE_ENTRY row on a personal account with the move switch
\* on, and the pairing lookup for the parent of the row's entry returns an
\* entry
MoveWithParentPair ==
    /\ RowRead
    /\ ReadRow.item_action = MOVE_ENTRY
    /\ config.account_type = PERSONAL
    /\ config.create_owned_folder_and_move_contents
    /\ store[ReadRow.entry_id].parent \in Live(store)
    /\ get_pair_copy_entry(store, config, store[ReadRow.entry_id].parent).err = "ok"
    /\ get_pair_copy_entry(store, config, store[ReadRow.entry_id].parent).pair # NoId

\* the entry found as the pair of the parent of the row's entry
ParentPair == get_pair_copy_entry(store, config, store[ReadRow.entry_id].parent).pair

\* C23: applying a MOVE_ENTRY row when the entry found as the pair of the
\* current parent carries no original-id property gives SKIPPED; when it
\* carries one and is not a folder it gives FAILED; either way nothing moves
C23_ParentPairNotCopySkipsNotFolderFails ==
    [][MoveWithParentPair =>
          /\ store[ParentPair].origId = NoId
                => (RowGives(SKIPPED) /\ store' = store /\ runOps' = runOps)
          /\ (store[ParentPair].origId # NoId /\ ~store[ParentPair].dir)
                => (RowGives(FAILED) /\ store' = store /\ runOps' = runOps)]_vars

\* a move was skipped for a file whose folder is the account's copy of another
\* folder, which is no copy itself
MoveSkippedUnderCopy ==
    /\ Len(outcomes) = 1
    /\ outcomes[1].item.entry_id = MoveFile
    /\ outcomes[1].result_name = SKIPPED
    /\ is_owned_by(store, MoveFolder, account_id(config))
    /\ store[MoveFolder].origId = MoveOther
    /\ store[MoveOther].copyId = MoveFolder
    /\ store[MoveOther].origId = NoId
    /\ store[MoveFile].parent = MoveFolder

\* a move failed for a file the account owns whose folder, not the account's,
\* is paired with a file
C23_WitnessFailedForFilePair ==
    /\ Len(outcomes) = 1
    /\ outcomes[1].item.entry_id = MoveFile
    /\ outcomes[1].result_name = FAILED
    /\ ~is_owned_by(store, MoveFolder, account_id(config))
    /\ store[MoveFolder].copyId = MoveOther
    /\ store[MoveOther].origId = MoveFolder
    /\ ~store[MoveOther].dir
    /\ is_owned_by(store, MoveFile, account_id(config))
    /\ store[MoveFile].parent = MoveFolder

\* the step reads a MOVE_ENTRY row whose target folder is resolved: the pair of
\* the current parent is a copy and a folder
MoveWithTarget ==
    /\ MoveWithParentPair
    /\ store[ParentPair].origId # NoId
    /\ store[ParentPair].dir

\* the entry to move: the row's entry when the account owns it, else the entry
\* the pairing lookup returns for it (NoId when there is none or it raises)
ToMove ==
    LET e == ReadRow.entry_id IN
    IF is_owned_by(store, e, account_id(config)) THEN e
    ELSE get_pair_copy_entry(store, config, e).pair

\* C24: applying a MOVE_ENTRY row whose entry to move (the row's entry when
\* the account owns it, else its paired copy) is already in the resolved
\* target folder gives SKIPPED and moves nothing; otherwise the parent of the
\* entry to move becomes the target folder, nothing else changes, and the
\* outcome is SUCCESS
C24_MoveSkipsOrMoves ==
    [][(MoveWithTarget /\ ToMove # NoId) =>
          IF store[ToMove].parent = ParentPair
          THEN RowGives(SKIPPED) /\ store' = store /\ runOps' = runOps
          ELSE /\ RowGives(SUCCESS)
               /\ store' = [store EXCEPT ![ToMove].parent = ParentPair]
               /\ runOps' = runOps + 1]_vars

\* the copy of the file that is not the account's was moved into the copy of
\* the folder by the first row, and the second row, the same, was skipped
C24_WitnessMovedThenSkipped ==
    /\ Len(outcomes) = 2
    /\ outcomes[1].item.entry_id = MoveFile
    /\ outcomes[1].result_name = SUCCESS
    /\ outcomes[2].item = outcomes[1].item
    /\ outcomes[2].result_name = SKIPPED
    /\ ~is_owned_by(store, MoveFile, account_id(config))
    /\ store[MoveFile].parent = MoveFolder
    /\ store[MoveCopy].parent = MoveOther

\* the step is a round of the plan run's loop that wrote the rows of the entry
\* it visited
PlanVisits == pc = "plan" /\ queue # << >> /\ queue' = Tail(queue)

\* the entry that step visits
Visited == Head(queue)

\* the rows that step writes
NewRows == SubSeq(planFile', Len(planFile) + 1, Len(planFile'))

\* the pass an item_action belongs to
PassOf(action) ==
    CASE action \in {CREATE_FOLDER, COPY_FILE} -> 1
      [] action = MOVE_ENTRY                   -> 2
      [] action = RENAME_FILE                  -> 3
      [] OTHER                                 -> 4

\* the rows of pass n among the rows
RowsOfPass(rows, n) ==
    LET RECURSIVE Pick(_)
        Pick(r) == IF r = << >> THEN << >>
                   ELSE IF PassOf(Head(r).item_action) = n
                        THEN << Head(r) >> \o Pick(Tail(r))
                        ELSE Pick(Tail(r))
    IN  Pick(rows)

RenameFolderNotRenamed ==
    /\ runEnd = "planned"
    /\ config.entry_name_delete_prefix_copy_of
    /\ NameFile \in cache
    /\ store[NameFile].name = << "Copy of ", "report", ".pdf" >>
    /\ is_dir(store, NameFile)
    /\ is_owned_by(store, NameFile, account_id(config))
    /\ planFile = << >>

PlanRound == pc = "plan" /\ queue # << >> /\ cache' # cache

\* the permissions of the visited entry that are not owner permissions and
\* are of a type other than "anyone" and "user"
GroupOrDomain ==
    {p \in store[Visited].perms :
        role(p) # "OWNER" /\ entry_type(p) \notin {"anyone", "user"}}

\* C30: on a personal account, with permissions_delete_other_users on and an
\* empty keep list, the round of the plan loop that visits an entry with a
\* non-owner permission of type group or domain does not end in an error and
\* writes a DELETE_PERMISSION row for that permission
C30_GroupAndDomainPlanned ==
    [][(/\ PlanRound
        /\ config.account_type = PERSONAL
        /\ config.permissions_delete_other_users
        /\ config.permissions_user_emails_keep = {})
            => \A p \in GroupOrDomain :
                  /\ runEnd' # "plan-error"
                  /\ \E i \in DOMAIN NewRows :
                        /\ NewRows[i].item_action = DELETE_PERMISSION
                        /\ NewRows[i].entry_id = Visited
                        /\ NewRows[i].permission_id = p]_vars

----------------------------------------------------------------------------
(* The path of an entry in the cache *)

\* the call of path has returned / has raised
PathReturned == pc = "path" /\ lastPair.err = "ok"
PathRaised   == pc = "path" /\ lastPair.err = "raise"

RECURSIVE MissingUp(_, _, _, _)
\* following parent_id from e for at most steps entries, an id without an
\* entry in cache c comes before the top folder
MissingUp(s, c, e, steps) ==
    IF e \notin c THEN TRUE
    ELSE IF e = TopId \/ steps = 0 THEN FALSE
    ELSE MissingUp(s, c, s[e].parent, steps - 1)

\* the entry asked for, or one of its ancestors below the top folder, is not
\* in the cache
Missing == MissingUp(store, cache, path_entry_id, MaxPathIds)

\* seq starts at the top folder, ends at entry e, holds cached entries only,
\* and each element is the parent_id of the next
RootFirstChain(seq, e) ==
    /\ seq # << >>
    /\ seq[1] = TopId
    /\ seq[Len(seq)] = e
    /\ \A i \in DOMAIN seq : seq[i] \in cache
    /\ \A i \in 1 .. (Len(seq) - 1) : store[seq[i + 1]].parent = seq[i]

\* C31: what path(id) returns is the chain from the top folder to the entry,
\* root first, each element the cached parent of the next and the last one the
\* entry itself; it raises only at an id without a cached entry, reached from
\* the entry over cached parent links; and when the entry or an ancestor below
\* the top folder is not cached, the call raises.
C31_PathIsRootFirstChain ==
    /\ [](PathReturned => /\ RootFirstChain(path_result, path_entry_id)
                          /\ path_result = path(store, cache, path_entry_id))
    /\ [](PathRaised => /\ path_current_id \notin cache
                        /\ Missing
                        /\ path(store, cache, path_entry_id) = << >>)
    /\ [](Missing => <>PathRaised)

\* path has returned a chain of three entries
C31_WitnessReturnedChain ==
    /\ PathReturned
    /\ Len(path_result) = MaxPathIds
    /\ path_result[1] = TopId

\* path has raised at a parent that is not cached, after the entry itself
\* was found
PathRaisedAtAncestor ==
    /\ PathRaised
    /\ path_result # << >>
    /\ path_current_id # NoId

\* C39: every call of path comes to an end: it returns or it raises.
C39_PathTerminates == <>(PathReturned \/ PathRaised)

\* the loop of path is at an entry that is in the result already
PathMeetsAgain ==
    /\ pc = "path"
    /\ lastPair.err = "walking"
    /\ path_current_id \in cache
    /\ \E i \in DOMAIN path_result : path_result[i] = path_current_id

----------------------------------------------------------------------------
(* The order of the traversal *)

RECURSIVE AncestorsUp(_, _, _)
\* the folders above e, up to the one without a parent
AncestorsUp(s, e, steps) ==
    IF steps = 0 \/ s[e].parent = NoId THEN {}
    ELSE {s[e].parent} \cup AncestorsUp(s, s[e].parent, steps - 1)

Ancestors(s, e) == AncestorsUp(s, e, Cardinality(Live(s)))

\* the entries below folder f
Descendants(s, f) == {x \in Live(s) : f \in Ancestors(s, x)}

\* C32: a plan run visits the top folder first, no entry twice, every other
\* entry when all its ancestors up to the top folder are in the cache, so that
\* path gives its chain from the top folder; whatever was visited before and is
\* not an ancestor of the visited entry has its whole subtree visited already
\* (depth first); and the run that comes to its end has visited the top folder
\* and every entry below it.
C32_DepthFirstParentsFirst ==
    [][PlanRound =>
         /\ Visited \notin cache
         /\ (Visited = TopId) = (cache = {})
         /\ Visited = TopId \/ Visited \in Descendants(store, TopId)
         /\ Visited # TopId =>
               /\ store[Visited].parent \in cache
               /\ Ancestors(store, Visited) \subseteq cache
         /\ LET entry_path == path(store, cache', Visited) IN
               /\ entry_path # << >>
               /\ entry_path[1] = TopId
               /\ entry_path[Len(entry_path)] = Visited
               /\ \A i \in 1 .. (Len(entry_path) - 1) :
                     store[entry_path[i + 1]].parent = entry_path[i]
         /\ \A u \in cache \ Ancestors(store, Visited) :
               Descendants(store, u) \subseteq cache
         /\ runEnd' = "planned" =>
               cache' = {TopId} \cup Descendants(store, TopId)]_vars

\* a plan run has visited a folder and the entry inside it, and is at the
\* folder's next sibling
C32_WitnessSubtreeBeforeSibling ==
    /\ pc = "plan"
    /\ queue # << >>
    /\ \E f, x \in cache :
          /\ store[f].parent = TopId
          /\ store[x].parent = f
          /\ store[Head(queue)].parent = TopId
          /\ Head(queue) \notin cache

----------------------------------------------------------------------------
(* The top folder *)

----------------------------------------------------------------------------
(* Tidying the properties *)

\* a tidy run visits the entry at the head of the traversal
TidyRound == pc = "tidy" /\ queue # << >> /\ queue' = Tail(queue)

\* the visit leaves alone every other entry, and of the visited entry all but
\* its shared properties
TidyTouchesPropertiesOnly ==
    /\ DOMAIN store' = DOMAIN store
    /\ \A x \in DOMAIN store :
          /\ x # Visited => store'[x] = store[x]
          /\ store'[x].dir = store[x].dir
          /\ store'[x].parent = store[x].parent
          /\ store'[x].perms = store[x].perms
          /\ store'[x].name = store[x].name

\* a tidy run has come to its end right after a tidy run that came to its end
SecondTidy == pc = "idle" /\ runEnd = "tidied" /\ prevEnd = "tidied"

\* C34 (as the code has it): the visit of an entry by a tidy run clears the two
\* pairing properties and the four properties of remove_keys that earlier
\* versions wrote, leaves every other shared property as it was, and sends an
\* update exactly when the entry carries one of the six; a tidy run that comes
\* to its end right after one that did sends no update.
C34_TidyClearsRemoveKeys ==
    /\ [][TidyRound =>
             LET old == properties_shared(store, Visited)
                 new == properties_shared(store', Visited)
             IN  /\ DOMAIN new = DOMAIN old \ remove_keys
                 /\ \A k \in DOMAIN new : new[k] = old[k]
                 /\ runOps' = IF DOMAIN old \cap remove_keys = {}
                              THEN runOps ELSE runOps + 1
                 /\ TidyTouchesPropertiesOnly]_vars
    /\ [](SecondTidy => runOps = 0)

\* C34 (as stated): the visit of an entry by a tidy run clears the two pairing
\* properties, leaves every other shared property of the entry unchanged, and
\* sends no update for an entry that carries neither pairing property; a tidy
\* run that comes to its end right after one that did sends no update.
C34_TidyClearsPairingOnly ==
    /\ [][TidyRound =>
             /\ store'[Visited].copyId = NoId
             /\ store'[Visited].origId = NoId
             /\ store'[Visited].props = store[Visited].props
             /\ (store[Visited].copyId = NoId /\ store[Visited].origId = NoId)
                   => runOps' = runOps
             /\ TidyTouchesPropertiesOnly]_vars
    /\ [](SecondTidy => runOps = 0)

\* a tidy run has come to its end with an update for each of the three
\* entries; the file has lost its pairing properties and keeps the property of
\* another program
C34_WitnessTidiedKeepsOthers ==
    /\ pc = "idle"
    /\ runEnd = "tidied"
    /\ runOps = TidyFile
    /\ store[TidyFile].copyId = NoId
    /\ store[TidyFile].origId = NoId
    /\ DOMAIN store[TidyFile].props = {"colour"}

\* a second tidy run has come to its end on entries that keep properties of
\* another program
SecondTidyKeepsOthers ==
    /\ SecondTidy
    /\ \A x \in DOMAIN store : DOMAIN store[x].props = {"colour"}

----------------------------------------------------------------------------
(* Rows that change nothing *)

\* the step of an apply run writes an outcome with this result
OutcomeWritten(result) ==
    /\ pc = "apply"
    /\ Len(outcomes') = Len(outcomes) + 1
    /\ outcomes'[Len(outcomes')].result_name = result

\* C35: the step of an apply run that writes the outcome SKIPPED or FAILED for
\* a row leaves the remote store as it was (no entry more, every entry with its
\* parent, name, properties and permissions) and makes no mutating call.
C35_SkippedAndFailedChangeNothing ==
    [][(OutcomeWritten(SKIPPED) \/ OutcomeWritten(FAILED))
          => store' = store /\ runOps' = runOps]_vars

\* an apply run has copied a file for its first row and has failed to move an
\* entry for its second: one entry more than at the start, two mutating calls
C35_WitnessFailedAfterCopy ==
    /\ pc = "idle"
    /\ Len(outcomes) = 2
    /\ outcomes[1].result_name = SUCCESS
    /\ outcomes[1].item.item_action = COPY_FILE
    /\ outcomes[2].result_name = FAILED
    /\ outcomes[2].item.item_action = MOVE_ENTRY
    /\ Cardinality(Live(store)) = RowCount + 1
    /\ runOps = 2

\* an apply run has copied a file for its first row and has skipped the same
\* row when it came again
SkippedAfterCopy ==
    /\ pc = "idle"
    /\ Len(outcomes) = 2
    /\ outcomes[1].result_name = SUCCESS
    /\ outcomes[1].item.item_action = COPY_FILE
    /\ outcomes[2].result_name = SKIPPED
    /\ outcomes[2].item = outcomes[1].item
    /\ Cardinality(Live(store)) = RowCount + 1
    /\ runOps = 2

----------------------------------------------------------------------------
(* Planning again after the plan was applied *)

\* the plans report of a plan run that came to its end, as it was written, has
\* been applied to its last row, each row with the outcome SUCCESS or SKIPPED
Settled ==
    /\ pc = "idle"
    /\ runEnd = "applied"
    /\ ~edited
    /\ Len(outcomes) = Len(planFile)
    /\ \A i \in DOMAIN outcomes : outcomes[i].result_name \in {SUCCESS, SKIPPED}

\* the rows a plan run on store s writes for entry e
RowsFor(s, cfg, e) == _process_one(s, cfg, Live(s), e).rows

----------------------------------------------------------------------------
(* What a MOVE_ENTRY row moves *)

\* the entries whose parent the step changes
Moved == {x \in Live(store) : x \in Live(store') /\ store'[x].parent # store[x].parent}

\* the step reads a MOVE_ENTRY row
MoveRead == RowRead /\ ReadRow.item_action = MOVE_ENTRY

\* C37 (as stated): applying a MOVE_ENTRY row changes the parent of one entry
\* at most and of no entry that is not the account's; when the plan entry is
\* not the account's, what is moved is its pair and the plan entry keeps its
\* parent.
C37_MoveMovesOneOwnedEntry ==
    [][MoveRead =>
          /\ Cardinality(Moved) <= 1
          /\ \A x \in Moved : is_owned_by(store, x, account_id(config))
          /\ ~is_owned_by(store, ReadRow.entry_id, account_id(config)) =>
                /\ ReadRow.entry_id \notin Moved
                /\ \A x \in Moved :
                      x = get_pair_copy_entry(store, config, ReadRow.entry_id).pair]_vars

\* applying a MOVE_ENTRY row changes the parent of one entry at most; the
\* plan entry that is not the account's keeps its parent, and what is moved is
\* its pair
MoveMovesPairOfUnowned ==
    [][MoveRead =>
          /\ Cardinality(Moved) <= 1
          /\ ~is_owned_by(store, ReadRow.entry_id, account_id(config)) =>
                /\ ReadRow.entry_id \notin Moved
                /\ \A x \in Moved :
                      x = get_pair_copy_entry(store, config, ReadRow.entry_id).pair]_vars

----------------------------------------------------------------------------
(* The rows of the outcomes report *)

\* _apply_plan: the fields an outcome starts with, those of the plan row and
\* the result UNKNOWN
params(plan) == [item |-> plan, result_name |-> UNKNOWN]

\* C38: every row of the outcomes report has the result SUCCESS, SKIPPED or
\* FAILED, never UNKNOWN, and but for the result it is what the outcome of its
\* plan row started with: every field of the plan row, unchanged.
C38_OutcomeKeepsPlanFields ==
    /\ Len(outcomes) <= Len(planFile)
    /\ \A i \in DOMAIN outcomes :
          /\ outcomes[i].result_name \in PlanReportOutcomes \ {UNKNOWN}
          /\ [outcomes[i] EXCEPT !.result_name = UNKNOWN] = params(planFile[i])

\* an apply run has written SKIPPED for a rename row and SUCCESS for the row
\* that deletes the link permission of the same file
C38_WitnessSkippedThenDeleted ==
    /\ pc = "idle"
    /\ Len(outcomes) = 2
    /\ outcomes[1].item.item_action = RENAME_FILE
    /\ outcomes[1].item.end_entry_name # NoName
    /\ outcomes[1].result_name = SKIPPED
    /\ outcomes[2].item.item_action = DELETE_PERMISSION
    /\ outcomes[2].item.permission_id = "anyone"
    /\ outcomes[2].item.entry_id = outcomes[1].item.entry_id
    /\ outcomes[2].result_name = SUCCESS

====
